---- MODULE Spec2Model ----
(***************************************************************************)
(* A model of the UML editor: the identifier/type grammar, the structural  *)
(* entities (Parameter, Method, Field, Class, Relationship), the Diagram   *)
(* aggregate, and the Command / Timeline undo-redo engine driven by the    *)
(* command loop cli::CLI.                                                  *)
(*                                                                         *)
(* Text (std::string / std::string_view) is a sequence of one-character    *)
(* strings; indices into text are 0-based as in the source.                *)
(*                                                                         *)
(* std::ranges::sort is not a stable sort: elements that compare           *)
(* equivalent may end in any order.  Every operation that sorts therefore  *)
(* yields a SET of outcomes, one per sorted arrangement.                   *)
(***************************************************************************)
EXTENDS Integers, Sequences, FiniteSets, TLC

VARIABLES
  diagram,    \* model::Diagram::GetInstance(): [classes, relationships]
  timeline,   \* commands::Timeline::timeline_: sequence of committed commands
  index,      \* commands::Timeline::index_
  files,      \* the file system seen by Diagram::Load / Diagram::Save
  last,       \* the command name the loop ran last, and its Result
  stack,      \* the static std::vector<char> stack of ValidType (utils.hpp)
  call        \* the call of the grammar validator made last, and its Result

vars == <<diagram, timeline, index, files, last, stack, call>>

----------------------------------------------------------------------------
(* Bounds of the model.                                                     *)

MaxHistory == 3      \* longest Timeline explored

----------------------------------------------------------------------------
(* Characters and text.                                                     *)

\* The characters used, in ascending order of their char value.
Chars == <<" ", "!", "(", ")", "*", ",", "-", "0", "1", "9", ":", "<", ">",
           "A", "Z", "[", "]", "_", "a", "b", "c", "f", "g", "i", "j",
           "p", "q", "x", "y", "z">>

CharSet == {Chars[k] : k \in 1..Len(Chars)}

\* The rank of a character: order-isomorphic to its char value.
Ord == [c \in CharSet |-> CHOOSE k \in 1..Len(Chars) : Chars[k] = c]

\* t[i] of the source (0-based).
At(t, i) == t[i + 1]

\* t.substr(from, to - from)
Sub(t, from, to) == SubSeq(t, from + 1, to)

RECURSIVE TextCmp(_, _)
\* std::string operator<=> : -1, 0 or 1
TextCmp(a, b) ==
  IF a = <<>> /\ b = <<>> THEN 0
  ELSE IF a = <<>> THEN -1
  ELSE IF b = <<>> THEN 1
  ELSE IF Ord[Head(a)] < Ord[Head(b)] THEN -1
  ELSE IF Ord[Head(a)] > Ord[Head(b)] THEN 1
  ELSE TextCmp(Tail(a), Tail(b))

----------------------------------------------------------------------------
(* Result<T> = std::expected<T, std::string>.  The error text is kept as    *)
(* its kind.                                                                *)

Ok(v) == [ok |-> TRUE, err |-> "none", val |-> v]
Fail(kind, v) == [ok |-> FALSE, err |-> kind, val |-> v]

----------------------------------------------------------------------------
(* Grammar validator (utils.hpp).                                           *)

InRange(lo, hi, c) == Ord[lo] <= Ord[c] /\ Ord[c] <= Ord[hi]
Alpha(c) == InRange("a", "z", c) \/ InRange("A", "Z", c) \/ c = "_"
Digit(c) == InRange("0", "9", c)
AlNum(c) == Alpha(c) \/ Digit(c)

RECURSIVE IdentifierEnd(_, _)
\* the while loop of ValidIdentifier
IdentifierEnd(t, start) ==
  IF start < Len(t) /\ AlNum(At(t, start)) THEN IdentifierEnd(t, start + 1)
  ELSE start

\* Fault: the identifier is its first character only.
ValidIdentifier_OneCharacter(t, start) ==
  IF start = Len(t) THEN Fail("validation", start)
  ELSE IF ~Alpha(At(t, start)) THEN Fail("validation", start)
  ELSE Ok(start + 1)

ValidIdentifier(t, start) ==
  IF start = Len(t) THEN Fail("validation", start)
  ELSE IF ~Alpha(At(t, start)) THEN Fail("validation", start)
  ELSE Ok(IdentifierEnd(t, start + 1))

RECURSIVE StarsEnd(_, _)
\* "consume any number of *s"
StarsEnd(t, start) ==
  IF start < Len(t) /\ At(t, start) = "*" THEN StarsEnd(t, start + 1)
  ELSE start

Closer(c) == CASE c = "[" -> "]" [] c = "(" -> ")" [] c = "<" -> ">"

PopBack(s) == SubSeq(s, 1, Len(s) - 1)

\* A ValidType result carries the static stack as the call left it.
TOk(v, stk) == [ok |-> TRUE, err |-> "none", val |-> v, stack |-> stk]
TFail(v, stk) == [ok |-> FALSE, err |-> "validation", val |-> v, stack |-> stk]

RECURSIVE ValidTypeS(_, _, _)
RECURSIVE TypeList(_, _, _, _)

\* ValidType once the nested ValidType call of the loop has returned type.
TypeListAfter(t, type) ==
  IF ~type.ok THEN TFail(type.val, PopBack(type.stack))
  ELSE IF type.val = Len(t) THEN TFail(type.val, PopBack(type.stack))
  ELSE TypeList(t, type.val, FALSE, type.stack)

\* Fault: the list ends at a closer of any kind.
TypeList_AnyCloser(t, start, first, stk) ==
  IF At(t, start) \in {"]", ")", ">"}
  THEN TOk(StarsEnd(t, start + 1), PopBack(stk))
  ELSE IF ~first /\ At(t, start) # ","
  THEN TFail(start, stk)
  ELSE TypeListAfter(t, ValidTypeS(t, IF first THEN start ELSE start + 1, stk))

\* Fault: the list ends at the closer that lies at the bottom of the stack.
TypeList_BottomOfStack(t, start, first, stk) ==
  IF At(t, start) = stk[1]
  THEN TOk(StarsEnd(t, start + 1), PopBack(stk))
  ELSE IF ~first /\ At(t, start) # ","
  THEN TFail(start, stk)
  ELSE TypeListAfter(t, ValidTypeS(t, IF first THEN start ELSE start + 1, stk))

\* The while loop of ValidType: "while we don't see a matching bracket".
TypeList(t, start, first, stk) ==
  IF At(t, start) = stk[Len(stk)]
  THEN TOk(StarsEnd(t, start + 1), PopBack(stk))
  ELSE IF ~first /\ At(t, start) # ","
  THEN TFail(start, stk)                        \* returns without pop_back
  ELSE TypeListAfter(t, ValidTypeS(t, IF first THEN start ELSE start + 1, stk))

\* ValidType once its leading ValidIdentifier call has returned id.
TypeAfterName(t, id, stk) ==
  IF ~id.ok THEN TFail(id.val, stk)
  ELSE IF id.val = Len(t) THEN TOk(id.val, stk)
  ELSE IF At(t, id.val) = "*" THEN TOk(StarsEnd(t, id.val + 1), stk)
  ELSE IF At(t, id.val) \notin {"[", "(", "<"} THEN TOk(id.val, stk)
  ELSE IF id.val + 1 = Len(t) THEN TFail(id.val + 1, stk)
  ELSE TypeList(t, id.val + 1, TRUE, Append(stk, Closer(At(t, id.val))))

\* ValidType with the static std::vector<char> stack made explicit.
ValidTypeS(t, start, stk) == TypeAfterName(t, ValidIdentifier(t, start), stk)

\* the Result<std::size_t> of a ValidType call, without the stack
Returned(r) == [ok |-> r.ok, err |-> r.err, val |-> r.val]

\* ValidType as the entities call it, entered with an empty stack.
ValidType(t, start) == Returned(ValidTypeS(t, start, <<>>))

\* checking.hpp Check<Fn>: invokes Fn(entity, 0) and keeps only success/failure.
CheckIdentifier(entity) == ValidIdentifier(entity, 0).ok
CheckType(entity) == ValidType(entity, 0).ok

\* checking.hpp CheckAll<ValidType>
CheckAllType(texts) == \A k \in 1..Len(texts) : CheckType(texts[k])
CheckAllIdentifier(texts) == \A k \in 1..Len(texts) : CheckIdentifier(texts[k])

----------------------------------------------------------------------------
(* Ordering of the entities, and std::ranges::sort.                         *)

\* the first of the comparison results rs that is not 0, or 0
FirstDecided(rs) ==
  IF \E k \in 1..Len(rs) : rs[k] # 0
  THEN rs[CHOOSE k \in 1..Len(rs) : rs[k] # 0 /\ \A j \in 1..(k - 1) : rs[j] = 0]
  ELSE 0

\* Relationship::operator<=>
RelationshipCmp(a, b) ==
  FirstDecided(<<TextCmp(a.source, b.source), TextCmp(a.destination, b.destination)>>)

\* the zip loop of Method::operator<=>: the first unequal pair of types.
ZipTypeCmp(ps, qs) ==
  FirstDecided([k \in 1..(IF Len(ps) < Len(qs) THEN Len(ps) ELSE Len(qs)) |->
                  TextCmp(ps[k].type, qs[k].type)])

\* Method::operator<=>: the names, then the numbers of parameters, then the
\* types of the parameters, then the return types
MethodCmp(a, b) ==
  FirstDecided(<<TextCmp(a.name, b.name),
                 IF Len(a.parameters) = Len(b.parameters) THEN 0
                 ELSE IF Len(a.parameters) < Len(b.parameters) THEN -1 ELSE 1,
                 ZipTypeCmp(a.parameters, b.parameters),
                 TextCmp(a.return_type, b.return_type)>>)

\* operator< of the element type being sorted.
Less(kind, a, b) ==
  CASE kind = "class" -> TextCmp(a.name, b.name) < 0          \* Class::operator<=>
    [] kind = "field" -> TextCmp(a.name, b.name) < 0          \* Field::operator<=>
    [] kind = "relationship" -> RelationshipCmp(a, b) < 0
    [] kind = "method" -> MethodCmp(a, b) < 0
    [] kind = "text" -> TextCmp(a, b) < 0

InsertAt(s, k, e) == SubSeq(s, 1, k - 1) \o <<e>> \o SubSeq(s, k, Len(s))

RemoveAt(s, k) == SubSeq(s, 1, k - 1) \o SubSeq(s, k + 1, Len(s))

\* every way to put e into the sorted sequence r that keeps it sorted
SortedInserts(kind, r, e) ==
  { InsertAt(r, k, e) :
      k \in { j \in 1..(Len(r) + 1) :
                \A i \in {j - 1, j} \cap (1..Len(r)) :
                  ~Less(kind, IF i < j THEN e ELSE r[i], IF i < j THEN r[i] ELSE e) } }

RECURSIVE Sorts(_, _)
\* std::ranges::sort(s): every arrangement of s that is sorted under
\* operator<; exactly one when no two elements are equivalent.
Sorts(kind, s) ==
  IF s = <<>> THEN { <<>> }
  ELSE UNION { SortedInserts(kind, r, s[Len(s)]) :
                 r \in Sorts(kind, SubSeq(s, 1, Len(s) - 1)) }

\* std::ranges::find over names: index of the first match, 0 for end().
FindFirst(s, matches) ==
  IF \E k \in 1..Len(s) : k \in matches
  THEN CHOOSE k \in 1..Len(s) : k \in matches /\ \A j \in 1..(k - 1) : j \notin matches
  ELSE 0

\* operator== of the element type (Class, Relationship: by key)
Equal(kind, a, b) ==
  CASE kind = "class" -> a.name = b.name
    [] kind = "relationship" -> a.source = b.source /\ a.destination = b.destination
    [] kind = "text" -> a = b

\* checking.hpp Unique: sort a copy, then fail if std::ranges::unique finds
\* two adjacent elements that are operator== (every sorted arrangement puts
\* equivalent elements side by side, so the arrangement chosen is immaterial).
Unique(kind, s) ==
  \A copy \in { CHOOSE r \in Sorts(kind, s) : TRUE } :
    \A k \in 1..(Len(copy) - 1) : ~Equal(kind, copy[k], copy[k + 1])

----------------------------------------------------------------------------
(* Relationship (relationship.cpp).                                         *)

RelationshipType == {"Aggregation", "Composition", "Inheritance", "Realization"}

Relationship_From(source, destination, type) ==
  IF ~CheckType(source) THEN Fail("validation", <<>>)
  ELSE IF ~CheckType(destination) THEN Fail("validation", <<>>)
  ELSE Ok([source |-> source, destination |-> destination, type |-> type])

Relationship_ChangeSource(r, new_source) ==
  IF CheckType(new_source) THEN Ok([r EXCEPT !.source = new_source])
  ELSE Fail("validation", r)

Relationship_ChangeDestination(r, new_destination) ==
  IF CheckType(new_destination) THEN Ok([r EXCEPT !.destination = new_destination])
  ELSE Fail("validation", r)

\* Relationship::operator==
Relationship_Eq(a, b) == a.source = b.source /\ a.destination = b.destination

----------------------------------------------------------------------------
(* Class (class.cpp): construction and renaming.                            *)

Point0 == [x |-> 0, y |-> 0]

Class_From(name) ==
  IF CheckType(name)
  THEN Ok([name |-> name, fields |-> <<>>, methods |-> <<>>, position |-> Point0])
  ELSE Fail("validation", <<>>)

Class_Rename(c, name) ==
  IF CheckType(name) THEN Ok([c EXCEPT !.name = name]) ELSE Fail("validation", c)

----------------------------------------------------------------------------
(* Parameter (parameter.cpp), Field (field.cpp), MethodSignature            *)
(* (method_signature.cpp) and Method (method.cpp).  An operation on an      *)
(* entity yields a Result whose val is the entity as the call left it.      *)

Parameter_From(name, type) ==
  IF ~CheckIdentifier(name) THEN Fail("validation", <<>>)
  ELSE IF ~CheckType(type) THEN Fail("validation", <<>>)
  ELSE Ok([name |-> name, type |-> type])

Parameter_ChangeType(p, new_type) ==
  IF CheckType(new_type) THEN Ok([p EXCEPT !.type = new_type])
  ELSE Fail("validation", p)

Parameter_Rename(p, new_name) ==
  IF CheckIdentifier(new_name) THEN Ok([p EXCEPT !.name = new_name])
  ELSE Fail("validation", p)

\* Parameter::Parse once Parameter::From has returned p: the pair of the
\* Parameter and the end index
ParsePair(p, end_index) ==
  IF p.ok THEN Ok([param |-> p.val, end |-> end_index])
  ELSE Fail("validation", <<>>)

\* Parameter::Parse once ValidType has returned type for the text after the
\* colon at colon_index - 1
ParseType(t, name, colon_index, type) ==
  IF ~type.ok THEN Fail("validation", <<>>)
  ELSE ParsePair(Parameter_From(name, Sub(t, colon_index, type.val)), type.val)

\* Parameter::Parse once ValidIdentifier has returned id
ParseName(t, start, id) ==
  IF ~id.ok THEN Fail("validation", <<>>)
  ELSE IF id.val = Len(t) THEN Fail("validation", <<>>)
  ELSE IF At(t, id.val) # ":" THEN Fail("validation", <<>>)
  ELSE ParseType(t, Sub(t, start, id.val), id.val + 1, ValidType(t, id.val + 1))

Parameter_Parse(t, start) == ParseName(t, start, ValidIdentifier(t, start))

RECURSIVE ParseMultipleFrom(_, _, _, _)

\* the loop of Parameter::ParseMultiple once Parse(str, idx) has returned res
ParseMultipleNext(t, start, idx, params, res) ==
  IF res.ok
  THEN ParseMultipleFrom(t, start, res.val.end, Append(params, res.val.param))
  ELSE IF idx = start THEN Ok([params |-> params, end |-> idx])
  ELSE Fail("validation", <<>>)

\* the while loop of Parameter::ParseMultiple, entered with idx and params
ParseMultipleFrom(t, start, idx, params) ==
  IF idx = Len(t) THEN Ok([params |-> params, end |-> idx])
  ELSE IF idx = start
  THEN ParseMultipleNext(t, start, idx, params, Parameter_Parse(t, idx))
  ELSE IF At(t, idx) # "," THEN Ok([params |-> params, end |-> idx])
  ELSE ParseMultipleNext(t, start, idx + 1, params, Parameter_Parse(t, idx + 1))

Parameter_ParseMultiple(t, start) == ParseMultipleFrom(t, start, start, <<>>)

\* Parameter::FromString once Parse has returned pair
FromStringPair(t, pair) ==
  IF ~pair.ok THEN Fail("validation", <<>>)
  ELSE IF pair.val.end # Len(t) THEN Fail("validation", <<>>)
  ELSE Ok(pair.val.param)

Parameter_FromString(t) == FromStringPair(t, Parameter_Parse(t, 0))

\* Parameter::MultipleFromString once ParseMultiple has returned pair
MultipleFromStringPair(t, pair) ==
  IF ~pair.ok THEN Fail("validation", <<>>)
  ELSE IF pair.val.end # Len(t) THEN Fail("validation", <<>>)
  ELSE Ok(pair.val.params)

Parameter_MultipleFromString(t) ==
  MultipleFromStringPair(t, Parameter_ParseMultiple(t, 0))

RECURSIVE Joined(_, _)
\* the texts one after the other with sep between them
Joined(texts, sep) ==
  IF texts = <<>> THEN <<>>
  ELSE IF Len(texts) = 1 THEN texts[1]
  ELSE texts[1] \o sep \o Joined(Tail(texts), sep)

\* std::formatter<model::Parameter>, not extended: name:type
Parameter_Format(p) == p.name \o <<":">> \o p.type

Field_From(name, type) ==
  IF ~CheckIdentifier(name) THEN Fail("validation", <<>>)
  ELSE IF ~CheckType(type) THEN Fail("validation", <<>>)
  ELSE Ok([name |-> name, type |-> type])

\* Field::Rename validates the name with Check<ValidType>.
Field_Rename(f, name) ==
  IF CheckType(name) THEN Ok([f EXCEPT !.name = name]) ELSE Fail("validation", f)

Field_ChangeType(f, new_type) ==
  IF CheckType(new_type) THEN Ok([f EXCEPT !.type = new_type])
  ELSE Fail("validation", f)

\* std::views::transform(parameters, &Parameter::Name) and (..., &Parameter::Type)
ParameterNames(parameters) == [k \in 1..Len(parameters) |-> parameters[k].name]
ParameterTypes(parameters) == [k \in 1..Len(parameters) |-> parameters[k].type]

MethodSignature(name, parameter_types) ==
  [name |-> name, parameter_types |-> parameter_types]

RECURSIVE ListOfTypesFrom(_, _, _, _)

\* the loop of ListOfTypes once ValidType(str, idx) has returned res
ListOfTypesNext(t, start, idx, params, res) ==
  IF res.ok
  THEN ListOfTypesFrom(t, start, res.val, Append(params, Sub(t, idx, res.val)))
  ELSE IF idx = start THEN Ok([params |-> params, end |-> idx])
  ELSE Fail("validation", <<>>)

\* the while loop of ListOfTypes, entered with idx and params
ListOfTypesFrom(t, start, idx, params) ==
  IF idx = start THEN ListOfTypesNext(t, start, idx, params, ValidType(t, idx))
  ELSE IF idx = Len(t) THEN Fail("validation", <<>>)
  ELSE IF At(t, idx) # "," THEN Ok([params |-> params, end |-> idx])
  ELSE IF idx + 1 = Len(t) THEN Fail("validation", <<>>)
  ELSE ListOfTypesNext(t, start, idx + 1, params, ValidType(t, idx + 1))

ListOfTypes(t, start) == ListOfTypesFrom(t, start, start, <<>>)

\* MethodSignature::FromString once ListOfTypes has returned list
SignatureFromList(t, name, list) ==
  IF ~list.ok THEN Fail("validation", <<>>)
  ELSE IF list.val.end = Len(t) THEN Fail("validation", <<>>)
  ELSE IF At(t, list.val.end) # ")" THEN Fail("validation", <<>>)
  ELSE IF list.val.end + 1 # Len(t) THEN Fail("validation", <<>>)
  ELSE Ok(MethodSignature(name, list.val.params))

\* MethodSignature::FromString once ValidIdentifier has returned id
SignatureFromName(t, id) ==
  IF ~id.ok THEN Fail("validation", <<>>)
  ELSE IF id.val = Len(t) THEN Fail("validation", <<>>)
  ELSE IF At(t, id.val) # "(" THEN Fail("validation", <<>>)
  ELSE SignatureFromList(t, Sub(t, 0, id.val), ListOfTypes(t, id.val + 1))

MethodSignature_FromString(t) == SignatureFromName(t, ValidIdentifier(t, 0))

\* Fault: the types are written with a comma and a space between them.
MethodSignature_Format_Spaced(sig) ==
  sig.name \o <<"(">> \o Joined(sig.parameter_types, <<",", " ">>) \o <<")">>

\* std::formatter<model::MethodSignature>: name(type,type)
MethodSignature_Format(sig) ==
  sig.name \o <<"(">> \o Joined(sig.parameter_types, <<",">>) \o <<")">>

\* MethodSignature::operator<=>: the name, then the types position by
\* position, then the number of types.
MethodSignatureCmp(a, b) ==
  FirstDecided(<<TextCmp(a.name, b.name),
                 FirstDecided([k \in 1..(IF Len(a.parameter_types) < Len(b.parameter_types)
                                         THEN Len(a.parameter_types)
                                         ELSE Len(b.parameter_types)) |->
                                 TextCmp(a.parameter_types[k], b.parameter_types[k])]),
                 IF Len(a.parameter_types) = Len(b.parameter_types) THEN 0
                 ELSE IF Len(a.parameter_types) < Len(b.parameter_types) THEN -1 ELSE 1>>)

WithName(sig, name) == [sig EXCEPT !.name = name]
WithParameters(sig, parameter_types) == [sig EXCEPT !.parameter_types = parameter_types]
WithAddedParameter(sig, type) == [sig EXCEPT !.parameter_types = Append(@, type)]
\* index is 0-based, as Method::GetParameterIndex returns it
WithoutParameter(sig, i) == [sig EXCEPT !.parameter_types = RemoveAt(@, i + 1)]
WithParameterType(sig, i, type) == [sig EXCEPT !.parameter_types[i + 1] = type]

\* method.cpp static Check(parameters): Unique, then names, then types
Method_Check(parameters) ==
  IF ~Unique("text", ParameterNames(parameters)) THEN Fail("conflict", <<>>)
  ELSE IF ~CheckAllIdentifier(ParameterNames(parameters)) THEN Fail("validation", <<>>)
  ELSE IF ~CheckAllType(ParameterTypes(parameters)) THEN Fail("validation", <<>>)
  ELSE Ok(<<>>)

Method_From(name, return_type, parameters) ==
  IF ~CheckIdentifier(name) THEN Fail("validation", <<>>)
  ELSE IF ~CheckType(return_type) THEN Fail("validation", <<>>)
  ELSE IF ~Method_Check(parameters).ok THEN Fail(Method_Check(parameters).err, <<>>)
  ELSE Ok([name |-> name, return_type |-> return_type, parameters |-> parameters])

\* Method::GetParameter: Result<iterator>, the iterator as an index; the
\* name is looked up as given.
Method_GetParameter(m, parameter_name) ==
  IF \E k \in 1..Len(m.parameters) : m.parameters[k].name = parameter_name
  THEN Ok(FindFirst(m.parameters,
                    {k \in 1..Len(m.parameters) : m.parameters[k].name = parameter_name}))
  ELSE Fail("not found", 0)

\* Method::GetParameterIndex: std::distance(parameters_.begin(), i)
Method_GetParameterIndex(i) == i - 1

Method_AddParameter(m, parameter_name, parameter_type) ==
  IF ~Parameter_From(parameter_name, parameter_type).ok THEN Fail("validation", m)
  ELSE IF Method_GetParameter(m, parameter_name).ok THEN Fail("conflict", m)
  ELSE Ok([m EXCEPT !.parameters = Append(@, Parameter_From(parameter_name, parameter_type).val)])

\* Fault: the new name is not looked for among the parameters.
RenameParameter_NoLookup(m, parameter_name, new_name) ==
  LET p == Method_GetParameter(m, parameter_name) IN
  IF ~p.ok THEN Fail(p.err, m)
  ELSE IF ~Parameter_Rename(m.parameters[p.val], new_name).ok THEN Fail("validation", m)
  ELSE Ok([m EXCEPT !.parameters[p.val] = Parameter_Rename(@, new_name).val])

Method_RenameParameter(m, parameter_name, new_name) ==
  LET p == Method_GetParameter(m, parameter_name) IN
  IF ~p.ok THEN Fail(p.err, m)
  ELSE IF \E k \in 1..Len(m.parameters) : m.parameters[k].name = new_name
  THEN Fail("conflict", m)
  ELSE IF ~Parameter_Rename(m.parameters[p.val], new_name).ok THEN Fail("validation", m)
  ELSE Ok([m EXCEPT !.parameters[p.val] = Parameter_Rename(@, new_name).val])

Method_ChangeReturnType(m, new_type) ==
  IF CheckType(new_type) THEN Ok([m EXCEPT !.return_type = new_type])
  ELSE Fail("validation", m)

\* Fault: the return type is taken where ValidType stopped, and what follows
\* it is ignored.
FromStringReturnType_AnyEnd(t, name, params, idx, type) ==
  IF ~type.ok THEN Fail("validation", <<>>)
  ELSE Method_From(name, Sub(t, idx, type.val), params)

\* Method::FromString once ValidType has returned type for the text at idx,
\* past the arrow; str.substr(idx, j) ends at the end of the text
FromStringReturnType(t, name, params, idx, type) ==
  IF ~type.ok THEN Fail("validation", <<>>)
  ELSE IF type.val # Len(t) THEN Fail("validation", <<>>)
  ELSE Method_From(name, Sub(t, idx, Len(t)), params)

\* Method::FromString past the parameters, which end at idx
FromStringArrow(t, name, params, idx) ==
  IF idx = Len(t) THEN Fail("validation", <<>>)
  ELSE IF At(t, idx) # ")" THEN Fail("validation", <<>>)
  ELSE IF idx + 1 = Len(t) THEN Fail("validation", <<>>)
  ELSE IF At(t, idx + 1) # "-" THEN Fail("validation", <<>>)
  ELSE IF idx + 2 = Len(t) THEN Fail("validation", <<>>)
  ELSE IF At(t, idx + 2) # ">" THEN Fail("validation", <<>>)
  ELSE FromStringReturnType(t, name, params, idx + 3, ValidType(t, idx + 3))

\* Method::FromString once Parameter::ParseMultiple has returned pair
FromStringParameters(t, name, pair) ==
  IF ~pair.ok THEN Fail("validation", <<>>)
  ELSE FromStringArrow(t, name, pair.val.params, pair.val.end)

\* Method::FromString once ValidIdentifier has returned id
FromStringName(t, id) ==
  IF ~id.ok THEN Fail("validation", <<>>)
  ELSE IF id.val = Len(t) THEN Fail("validation", <<>>)
  ELSE IF At(t, id.val) # "(" THEN Fail("validation", <<>>)
  ELSE FromStringParameters(t, Sub(t, 0, id.val),
                            Parameter_ParseMultiple(t, id.val + 1))

Method_FromString(t) == FromStringName(t, ValidIdentifier(t, 0))

\* std::formatter<model::Method>, not extended: name(name:type,name:type)->type
Method_Format(m) ==
  m.name \o <<"(">>
    \o Joined([k \in 1..Len(m.parameters) |-> Parameter_Format(m.parameters[k])], <<",">>)
    \o <<")", "-", ">">> \o m.return_type

\* Fault: equality of methods that compares the return types too.
Method_Eq_WithReturnType(a, b) ==
  /\ a.name = b.name
  /\ ParameterTypes(a.parameters) = ParameterTypes(b.parameters)
  /\ a.return_type = b.return_type

\* Method::operator==(Method const&)
Method_Eq(a, b) ==
  a.name = b.name /\ ParameterTypes(a.parameters) = ParameterTypes(b.parameters)

Method_ClearParameters(m) == Ok([m EXCEPT !.parameters = <<>>])

Method_RemoveParameter(m, i) == Ok([m EXCEPT !.parameters = RemoveAt(@, i)])

Method_Rename(m, name) ==
  IF CheckIdentifier(name) THEN Ok([m EXCEPT !.name = name]) ELSE Fail("validation", m)

Method_ChangeParameters(m, parameters) ==
  IF Method_Check(parameters).ok THEN Ok([m EXCEPT !.parameters = parameters])
  ELSE Fail(Method_Check(parameters).err, m)

\* Method::operator==(MethodSignature const&)
Method_EqSignature(m, sig) ==
  m.name = sig.name /\ ParameterTypes(m.parameters) = sig.parameter_types

----------------------------------------------------------------------------
(* Class (class.cpp): fields, methods and parameters.  A mutation yields    *)
(* the set of its possible outcomes, each a Result whose val is the class   *)
(* as the call left it.                                                     *)

\* class.cpp static Check(parameters): names, then types, then Unique
Class_CheckParameters(parameters) ==
  IF ~CheckAllIdentifier(ParameterNames(parameters)) THEN Fail("validation", <<>>)
  ELSE IF ~CheckAllType(ParameterTypes(parameters)) THEN Fail("validation", <<>>)
  ELSE IF ~Unique("text", ParameterNames(parameters)) THEN Fail("conflict", <<>>)
  ELSE Ok(<<>>)

\* class.cpp static Check(MethodSignature)
Class_CheckSignature(sig) ==
  CheckIdentifier(sig.name) /\ CheckAllType(sig.parameter_types)

\* class.cpp static Check(Method)
Class_CheckMethod(method) ==
  /\ CheckIdentifier(method.name)
  /\ Class_CheckParameters(method.parameters).ok
  /\ CheckType(method.return_type)
  /\ Unique("text", ParameterNames(method.parameters))

\* Class::GetField: Result<iterator>, the iterator as an index
GetField(c, field_name) ==
  IF ~CheckIdentifier(field_name) THEN Fail("validation", 0)
  ELSE IF \E k \in 1..Len(c.fields) : c.fields[k].name = field_name
  THEN Ok(FindFirst(c.fields, {k \in 1..Len(c.fields) : c.fields[k].name = field_name}))
  ELSE Fail("not found", 0)

\* Class::GetMethodFromSignature
GetMethodFromSignature(c, sig) ==
  IF ~Class_CheckSignature(sig) THEN Fail("validation", 0)
  ELSE IF \E k \in 1..Len(c.methods) : Method_EqSignature(c.methods[k], sig)
  THEN Ok(FindFirst(c.methods,
                    {k \in 1..Len(c.methods) : Method_EqSignature(c.methods[k], sig)}))
  ELSE Fail("not found", 0)

\* Class::GetMethod
GetMethod(c, method) ==
  IF ~Class_CheckMethod(method) THEN Fail("validation", 0)
  ELSE IF \E k \in 1..Len(c.methods) : Method_Eq(c.methods[k], method)
  THEN Ok(FindFirst(c.methods,
                    {k \in 1..Len(c.methods) : Method_Eq(c.methods[k], method)}))
  ELSE Fail("not found", 0)

\* Fault: the method is added without looking for one of its signature.
AddMethodAs_NoLookup(c, method) ==
  IF ~method.ok THEN { Fail(method.err, c) }
  ELSE { Ok([c EXCEPT !.methods = ms]) :
         ms \in Sorts("method", Append(c.methods, method.val)) }

\* Class::AddMethod once Method::From has returned method
AddMethodAs(c, method) ==
  IF ~method.ok THEN { Fail(method.err, c) }
  ELSE IF GetMethod(c, method.val).ok THEN { Fail("conflict", c) }
  ELSE { Ok([c EXCEPT !.methods = ms]) :
         ms \in Sorts("method", Append(c.methods, method.val)) }

Class_AddMethod(c, name, return_type, parameters) ==
  AddMethodAs(c, Method_From(name, return_type, parameters))

\* Class::DeleteMethod once GetMethodFromSignature has returned m
DeleteMethodAt(c, m) ==
  IF ~m.ok THEN { Fail(m.err, c) }
  ELSE { Ok([c EXCEPT !.methods = RemoveAt(@, m.val)]) }

Class_DeleteMethod(c, sig) == DeleteMethodAt(c, GetMethodFromSignature(c, sig))

\* the class c once the Method call on its method at index m has returned
\* changed; methods_ is not sorted again
InMethod(c, m, changed) ==
  IF ~changed.ok THEN { Fail(changed.err, c) }
  ELSE { Ok([c EXCEPT !.methods[m] = changed.val]) }

\* ChangeReturnTypeCommand::Execute, past GetClass and GetMethodFromSignature,
\* which returned m
ChangeReturnTypeAt(c, m, type) ==
  IF ~m.ok THEN { Fail(m.err, c) }
  ELSE InMethod(c, m.val, Method_ChangeReturnType(c.methods[m.val], type))

\* RenameParameterCommand::Execute, past GetClass and GetMethodFromSignature,
\* which returned m
RenameParameterAt(c, m, parameter_name, new_name) ==
  IF ~m.ok THEN { Fail(m.err, c) }
  ELSE InMethod(c, m.val,
                Method_RenameParameter(c.methods[m.val], parameter_name, new_name))

\* the methods_ of c with method m replaced, in every order std::ranges::sort
\* can leave them
WithMethod(c, m, method) ==
  { Ok([c EXCEPT !.methods = ms]) :
    ms \in Sorts("method", [c.methods EXCEPT ![m] = method]) }

\* Class::AddField: a name GetField does not find, for any reason, goes on to
\* Field::From
Class_AddField(c, field_name, field_type) ==
  IF GetField(c, field_name).ok THEN { Fail("conflict", c) }
  ELSE IF ~Field_From(field_name, field_type).ok THEN { Fail("validation", c) }
  ELSE { Ok([c EXCEPT !.fields = fs]) :
         fs \in Sorts("field", Append(c.fields, Field_From(field_name, field_type).val)) }

Class_DeleteField(c, field_name) ==
  IF ~GetField(c, field_name).ok THEN { Fail(GetField(c, field_name).err, c) }
  ELSE { Ok([c EXCEPT !.fields = RemoveAt(@, GetField(c, field_name).val)]) }

\* RetypeFieldCommand::Execute, past GetClass: GetField, then Field::ChangeType
RetypeFieldIn(c, field_name, type) ==
  IF ~GetField(c, field_name).ok THEN { Fail(GetField(c, field_name).err, c) }
  ELSE IF ~CheckType(type) THEN { Fail("validation", c) }
  ELSE { Ok([c EXCEPT !.fields[GetField(c, field_name).val] =
                        Field_ChangeType(@, type).val]) }

\* Class::RenameField, past GetField(field_name), which returned f
RenameFieldAt(c, f, new_name) ==
  IF GetField(c, new_name).ok THEN { Fail("conflict", c) }
  ELSE IF ~Field_Rename(c.fields[f], new_name).ok THEN { Fail("validation", c) }
  ELSE { Ok([c EXCEPT !.fields = fs]) :
         fs \in Sorts("field", [c.fields EXCEPT ![f] = Field_Rename(@, new_name).val]) }

Class_RenameField(c, field_name, new_name) ==
  IF ~GetField(c, field_name).ok THEN { Fail(GetField(c, field_name).err, c) }
  ELSE RenameFieldAt(c, GetField(c, field_name).val, new_name)

\* Fault: the method is changed first and the collision of signatures is
\* looked for afterwards, so a collision leaves the change behind.
ChangeMethodAt_ChangingFirst(c, m, new_sig, changed) ==
  IF ~changed.ok THEN { Fail(changed.err, c) }
  ELSE IF GetMethodFromSignature(c, new_sig).ok
  THEN { Fail("conflict", o.val) : o \in WithMethod(c, m, changed.val) }
  ELSE WithMethod(c, m, changed.val)

\* Fault: a method of the signature new_sig is a collision only when it is
\* another method than the one being changed.
ChangeMethodAt_SparingItself(c, m, new_sig, changed) ==
  IF GetMethodFromSignature(c, new_sig).ok /\ GetMethodFromSignature(c, new_sig).val # m
  THEN { Fail("conflict", c) }
  ELSE IF ~changed.ok THEN { Fail(changed.err, c) }
  ELSE WithMethod(c, m, changed.val)

\* a Class mutation of the method at index m whose signature becomes new_sig
\* and whose Method operation returned changed
ChangeMethodAt(c, m, new_sig, changed) ==
  IF GetMethodFromSignature(c, new_sig).ok THEN { Fail("conflict", c) }
  ELSE IF ~changed.ok THEN { Fail(changed.err, c) }
  ELSE WithMethod(c, m, changed.val)

\* Class::RenameMethod, past GetMethodFromSignature, which returned m
RenameMethodAt(c, m, sig, new_name) ==
  ChangeMethodAt(c, m, WithName(sig, new_name), Method_Rename(c.methods[m], new_name))

Class_RenameMethod(c, sig, new_name) ==
  IF ~GetMethodFromSignature(c, sig).ok
  THEN { Fail(GetMethodFromSignature(c, sig).err, c) }
  ELSE RenameMethodAt(c, GetMethodFromSignature(c, sig).val, sig, new_name)

Class_ChangeParameters(c, sig, parameters) ==
  IF ~Class_CheckParameters(parameters).ok
  THEN { Fail(Class_CheckParameters(parameters).err, c) }
  ELSE IF ~GetMethodFromSignature(c, sig).ok
  THEN { Fail(GetMethodFromSignature(c, sig).err, c) }
  ELSE ChangeMethodAt(c, GetMethodFromSignature(c, sig).val,
                      WithParameters(sig, ParameterTypes(parameters)),
                      Method_ChangeParameters(c.methods[GetMethodFromSignature(c, sig).val],
                                              parameters))

Class_AddParameter(c, sig, parameter_name, parameter_type) ==
  IF ~GetMethodFromSignature(c, sig).ok
  THEN { Fail(GetMethodFromSignature(c, sig).err, c) }
  ELSE ChangeMethodAt(c, GetMethodFromSignature(c, sig).val,
                      WithAddedParameter(sig, parameter_type),
                      Method_AddParameter(c.methods[GetMethodFromSignature(c, sig).val],
                                          parameter_name, parameter_type))

\* Class::DeleteParameter, past GetMethodFromSignature and Method::GetParameter,
\* which returned m and p
DeleteParameterAt(c, m, sig, p) ==
  ChangeMethodAt(c, m, WithoutParameter(sig, Method_GetParameterIndex(p)),
                 Method_RemoveParameter(c.methods[m], p))

\* Class::DeleteParameter, past GetMethodFromSignature, which returned m
DeleteParameterIn(c, m, sig, parameter_name) ==
  IF ~Method_GetParameter(c.methods[m], parameter_name).ok
  THEN { Fail("not found", c) }
  ELSE DeleteParameterAt(c, m, sig, Method_GetParameter(c.methods[m], parameter_name).val)

Class_DeleteParameter(c, sig, parameter_name) ==
  IF ~GetMethodFromSignature(c, sig).ok
  THEN { Fail(GetMethodFromSignature(c, sig).err, c) }
  ELSE DeleteParameterIn(c, GetMethodFromSignature(c, sig).val, sig, parameter_name)

Class_DeleteParameters(c, sig) ==
  IF ~GetMethodFromSignature(c, sig).ok
  THEN { Fail(GetMethodFromSignature(c, sig).err, c) }
  ELSE ChangeMethodAt(c, GetMethodFromSignature(c, sig).val,
                      WithParameters(sig, <<>>),
                      Method_ClearParameters(c.methods[GetMethodFromSignature(c, sig).val]))

\* the method m with its parameter p replaced by what Parameter::ChangeType returned
WithParameter(method, p, changed) ==
  IF changed.ok THEN Ok([method EXCEPT !.parameters[p] = changed.val])
  ELSE Fail(changed.err, method)

\* Class::ChangeParameterType, past GetMethodFromSignature and
\* Method::GetParameter, which returned m and p
ChangeParameterTypeAt(c, m, sig, p, new_type) ==
  ChangeMethodAt(c, m, WithParameterType(sig, Method_GetParameterIndex(p), new_type),
                 WithParameter(c.methods[m], p,
                               Parameter_ChangeType(c.methods[m].parameters[p], new_type)))

\* Class::ChangeParameterType, past GetMethodFromSignature, which returned m
ChangeParameterTypeIn(c, m, sig, parameter_name, new_type) ==
  IF ~Method_GetParameter(c.methods[m], parameter_name).ok
  THEN { Fail("not found", c) }
  ELSE ChangeParameterTypeAt(c, m, sig,
                             Method_GetParameter(c.methods[m], parameter_name).val,
                             new_type)

Class_ChangeParameterType(c, sig, parameter_name, new_type) ==
  IF ~GetMethodFromSignature(c, sig).ok
  THEN { Fail(GetMethodFromSignature(c, sig).err, c) }
  ELSE ChangeParameterTypeIn(c, GetMethodFromSignature(c, sig).val, sig,
                             parameter_name, new_type)

----------------------------------------------------------------------------
(* Diagram (diagram.cpp): lookups and structural mutations.  A mutation     *)
(* yields the set of its possible outcomes, each a Result whose val is the  *)
(* diagram as the call left it.                                             *)

EmptyDiagram == [classes |-> <<>>, relationships |-> <<>>]

\* Diagram::GetClass: Result<iterator>, the iterator as an index.
GetClass(d, name) ==
  IF ~CheckType(name) THEN Fail("validation", 0)
  ELSE LET i == FindFirst(d.classes,
                          {k \in 1..Len(d.classes) : d.classes[k].name = name})
       IN  IF i # 0 THEN Ok(i) ELSE Fail("not found", 0)

\* Diagram::GetRelationship
GetRelationship(d, src, dst) ==
  IF ~CheckType(src) THEN Fail("validation", 0)
  ELSE IF ~CheckType(dst) THEN Fail("validation", 0)
  ELSE LET i == FindFirst(d.relationships,
                          {k \in 1..Len(d.relationships) :
                             /\ d.relationships[k].source = src
                             /\ d.relationships[k].destination = dst})
       IN  IF i # 0 THEN Ok(i) ELSE Fail("not found", 0)

\* Fault: AddClass without the lookup of the name.
AddClass_NoLookup(d, name) ==
  LET c == Class_From(name)
  IN  IF c.ok THEN { Ok([d EXCEPT !.classes = Append(@, c.val)]) }
      ELSE { Fail(c.err, d) }

Diagram_AddClass(d, name) ==
  IF ~GetClass(d, name).ok
  THEN LET c == Class_From(name)
       IN  IF c.ok THEN { Ok([d EXCEPT !.classes = Append(@, c.val)]) }
           ELSE { Fail(c.err, d) }
  ELSE { Fail("conflict", d) }

\* Fault: DeleteClass without the erase_if over relationships_.
DeleteClass_KeepingRelationships(d, name) ==
  LET c == GetClass(d, name) IN
  IF ~c.ok THEN { Fail(c.err, d) }
  ELSE { Ok([d EXCEPT !.classes = RemoveAt(@, c.val)]) }

\* Fault: DeleteClass whose erase_if tests the source only.
DeleteClass_BySourceOnly(d, name) ==
  LET c == GetClass(d, name) IN
  IF ~c.ok THEN { Fail(c.err, d) }
  ELSE { Ok([classes |-> RemoveAt(d.classes, c.val),
             relationships |->
               SelectSeq(d.relationships, LAMBDA r : r.source # name)]) }

Diagram_DeleteClass(d, name) ==
  LET c == GetClass(d, name) IN
  IF ~c.ok THEN { Fail(c.err, d) }
  ELSE { Ok([classes |-> RemoveAt(d.classes, c.val),
             relationships |->
               SelectSeq(d.relationships,
                         LAMBDA r : ~(r.source = name \/ r.destination = name))]) }

\* the loop of RenameClass over relationships_; the results of ChangeSource
\* and ChangeDestination are ignored (std::ignore).
RenameEndpoints(rels, old_name, new_name) ==
  [k \in 1..Len(rels) |->
     LET r1 == IF rels[k].source = old_name
               THEN Relationship_ChangeSource(rels[k], new_name).val
               ELSE rels[k]
     IN  IF r1.destination = old_name
         THEN Relationship_ChangeDestination(r1, new_name).val
         ELSE r1]

\* Fault: RenameClass that renames sources only.
RenameClass_SourcesOnly(d, old_name, new_name) ==
  LET c == GetClass(d, old_name) IN
  IF ~c.ok THEN { Fail(c.err, d) }
  ELSE IF GetClass(d, new_name).ok THEN { Fail("conflict", d) }
  ELSE LET renamed == Class_Rename(d.classes[c.val], new_name) IN
       IF ~renamed.ok THEN { Fail(renamed.err, d) }
       ELSE { Ok([classes |-> cs,
                  relationships |->
                    [k \in 1..Len(d.relationships) |->
                       IF d.relationships[k].source = old_name
                       THEN [d.relationships[k] EXCEPT !.source = new_name]
                       ELSE d.relationships[k]]]) :
              cs \in Sorts("class", [d.classes EXCEPT ![c.val] = renamed.val]) }

Diagram_RenameClass(d, old_name, new_name) ==
  LET c == GetClass(d, old_name) IN
  IF ~c.ok THEN { Fail(c.err, d) }
  ELSE IF GetClass(d, new_name).ok THEN { Fail("conflict", d) }
  ELSE LET renamed == Class_Rename(d.classes[c.val], new_name) IN
       IF ~renamed.ok THEN { Fail(renamed.err, d) }
       ELSE { Ok([classes |-> cs,
                  relationships |->
                    RenameEndpoints(d.relationships, old_name, new_name)]) :
              cs \in Sorts("class", [d.classes EXCEPT ![c.val] = renamed.val]) }

\* Fault: a relationship between the pair is a conflict only when it has
\* the type being added.
AddRelationship_PerType(d, source, destination, type) ==
  IF ~GetClass(d, source).ok THEN { Fail(GetClass(d, source).err, d) }
  ELSE IF ~GetClass(d, destination).ok
  THEN { Fail(GetClass(d, destination).err, d) }
  ELSE IF /\ GetRelationship(d, source, destination).ok
          /\ d.relationships[GetRelationship(d, source, destination).val].type = type
  THEN { Fail("conflict", d) }
  ELSE { Ok([d EXCEPT !.relationships = rs]) :
         rs \in Sorts("relationship",
                      Append(d.relationships,
                             Relationship_From(source, destination, type).val)) }

Diagram_AddRelationship(d, source, destination, type) ==
  IF ~GetClass(d, source).ok THEN { Fail(GetClass(d, source).err, d) }
  ELSE IF ~GetClass(d, destination).ok
  THEN { Fail(GetClass(d, destination).err, d) }
  ELSE IF GetRelationship(d, source, destination).ok THEN { Fail("conflict", d) }
  ELSE LET r == Relationship_From(source, destination, type) IN
       IF ~r.ok THEN { Fail(r.err, d) }
       ELSE { Ok([d EXCEPT !.relationships = rs]) :
              rs \in Sorts("relationship", Append(d.relationships, r.val)) }

Diagram_DeleteRelationship(d, source, destination) ==
  LET r == GetRelationship(d, source, destination) IN
  IF ~r.ok THEN { Fail(r.err, d) }
  ELSE { Ok([d EXCEPT !.relationships = RemoveAt(@, r.val)]) }

\* Fault: ChangeRelationshipSource without the lookup of the new key.
ChangeRelationshipSource_NoLookup(d, source, destination, new_source) ==
  LET r == GetRelationship(d, source, destination) IN
  IF ~r.ok THEN { Fail(r.err, d) }
  ELSE IF ~GetClass(d, new_source).ok THEN { Fail(GetClass(d, new_source).err, d) }
  ELSE LET changed == Relationship_ChangeSource(d.relationships[r.val], new_source)
       IN  { Ok([d EXCEPT !.relationships = rs]) :
             rs \in Sorts("relationship",
                          [d.relationships EXCEPT ![r.val] = changed.val]) }

Diagram_ChangeRelationshipSource(d, source, destination, new_source) ==
  LET r == GetRelationship(d, source, destination) IN
  IF ~r.ok THEN { Fail(r.err, d) }
  ELSE IF GetRelationship(d, new_source, destination).ok
  THEN { Fail("conflict", d) }
  ELSE IF ~GetClass(d, new_source).ok THEN { Fail(GetClass(d, new_source).err, d) }
  ELSE LET changed == Relationship_ChangeSource(d.relationships[r.val], new_source)
       IN  IF ~changed.ok THEN { Fail(changed.err, d) }
           ELSE { Ok([d EXCEPT !.relationships = rs]) :
                  rs \in Sorts("relationship",
                               [d.relationships EXCEPT ![r.val] = changed.val]) }

\* Fault: the pair (source, new_destination) is not looked for.
ChangeRelationshipDestination_NoCollision(d, source, destination, new_destination) ==
  LET r == GetRelationship(d, source, destination) IN
  IF ~r.ok THEN { Fail(r.err, d) }
  ELSE IF ~GetClass(d, new_destination).ok
  THEN { Fail(GetClass(d, new_destination).err, d) }
  ELSE LET changed == Relationship_ChangeDestination(d.relationships[r.val],
                                                     new_destination)
       IN  IF ~changed.ok THEN { Fail(changed.err, d) }
           ELSE { Ok([d EXCEPT !.relationships = rs]) :
                  rs \in Sorts("relationship",
                               [d.relationships EXCEPT ![r.val] = changed.val]) }

Diagram_ChangeRelationshipDestination(d, source, destination, new_destination) ==
  LET r == GetRelationship(d, source, destination) IN
  IF ~r.ok THEN { Fail(r.err, d) }
  ELSE IF GetRelationship(d, source, new_destination).ok
  THEN { Fail("conflict", d) }
  ELSE IF ~GetClass(d, new_destination).ok
  THEN { Fail(GetClass(d, new_destination).err, d) }
  ELSE LET changed == Relationship_ChangeDestination(d.relationships[r.val],
                                                     new_destination)
       IN  IF ~changed.ok THEN { Fail(changed.err, d) }
           ELSE { Ok([d EXCEPT !.relationships = rs]) :
                  rs \in Sorts("relationship",
                               [d.relationships EXCEPT ![r.val] = changed.val]) }

----------------------------------------------------------------------------
(* Persistence (diagram.cpp: to_json, from_json, Load, Save).  A file holds *)
(* a JSON document, or cannot be parsed.                                    *)

\* a file that does not exist, or whose content is not JSON
NoDocument == [json |-> FALSE, classes |-> <<>>, relationships |-> <<>>]

Document(classes, relationships) ==
  [json |-> TRUE, classes |-> classes, relationships |-> relationships]

\* to_json(Parameter), to_json(Field): the object {name, type}
Parameter_ToJson(p) == [name |-> p.name, type |-> p.type]

Field_ToJson(f) == [name |-> f.name, type |-> f.type]

\* to_json(Method): the object {name, return_type, params}
Method_ToJson(m) ==
  [name |-> m.name, return_type |-> m.return_type,
   params |-> [k \in 1..Len(m.parameters) |-> Parameter_ToJson(m.parameters[k])]]

\* to_json(Class): the object {name, fields, methods, position}
Class_ToJson(c) ==
  [name |-> c.name,
   fields |-> [k \in 1..Len(c.fields) |-> Field_ToJson(c.fields[k])],
   methods |-> [k \in 1..Len(c.methods) |-> Method_ToJson(c.methods[k])],
   position |-> c.position]

\* to_json(Relationship): the object {source, destination, type}
Relationship_ToJson(r) ==
  [source |-> r.source, destination |-> r.destination, type |-> r.type]

\* to_json(Diagram)
Diagram_ToJson(d) ==
  Document([k \in 1..Len(d.classes) |-> Class_ToJson(d.classes[k])],
           [k \in 1..Len(d.relationships) |-> Relationship_ToJson(d.relationships[k])])

\* from_json(Parameter), from_json(Field): throw when From fails
Parameter_FromJson(j) == Parameter_From(j.name, j.type)

Field_FromJson(j) == Field_From(j.name, j.type)

\* from_json(Method): the params parse first, then Method::From
Method_FromJson(j) ==
  IF \E k \in 1..Len(j.params) : ~Parameter_FromJson(j.params[k]).ok
  THEN Fail("load", <<>>)
  ELSE Method_From(j.name, j.return_type,
                   [k \in 1..Len(j.params) |-> Parameter_FromJson(j.params[k]).val])

\* from_json(Class): throws when the name fails Check<ValidType>, or when a
\* field or a method throws
Class_FromJson(j) ==
  IF ~CheckType(j.name) THEN Fail("load", <<>>)
  ELSE IF \E k \in 1..Len(j.fields) : ~Field_FromJson(j.fields[k]).ok
  THEN Fail("load", <<>>)
  ELSE IF \E k \in 1..Len(j.methods) : ~Method_FromJson(j.methods[k]).ok
  THEN Fail("load", <<>>)
  ELSE Ok([name |-> j.name,
           fields |-> [k \in 1..Len(j.fields) |-> Field_FromJson(j.fields[k]).val],
           methods |-> [k \in 1..Len(j.methods) |-> Method_FromJson(j.methods[k]).val],
           position |-> j.position])

\* from_json(Relationship): Relationship::From on the three members
Relationship_FromJson(j) ==
  LET r == Relationship_From(j.source, j.destination, j.type)
  IN  IF r.ok THEN r ELSE Fail("load", <<>>)

RECURSIVE SortedUnique(_)
\* std::ranges::sort(rel_classes), then std::ranges::unique and erase
SortedUnique(names) ==
  IF names = {} THEN <<>>
  ELSE LET least == CHOOSE n \in names : \A m \in names : TextCmp(n, m) <= 0
       IN  <<least>> \o SortedUnique(names \ {least})

RECURSIVE Includes(_, _, _, _)
\* std::ranges::includes(classes_, rel_classes, {}, &Class::Name): the merge
\* scan of the standard algorithm, which takes both ranges to be sorted.
Includes(cs, names, i, j) ==
  IF j > Len(names) THEN TRUE
  ELSE IF i > Len(cs) THEN FALSE
  ELSE IF TextCmp(names[j], cs[i].name) < 0 THEN FALSE
  ELSE IF ~(TextCmp(cs[i].name, names[j]) < 0) THEN Includes(cs, names, i + 1, j + 1)
  ELSE Includes(cs, names, i + 1, j)

\* the std::vector<std::string> rel_classes of from_json(Diagram)
RelationshipClasses(rs) ==
  SortedUnique({rs[k].source : k \in 1..Len(rs)} \cup {rs[k].destination : k \in 1..Len(rs)})

\* Fault: the relationships' classes are not looked for among the classes.
CheckLoaded_WithoutIncludes(d) ==
  IF ~Unique("class", d.classes) THEN Fail("load", d)
  ELSE IF ~Unique("relationship", d.relationships) THEN Fail("load", d)
  ELSE Ok(d)

\* from_json(Diagram), past the two get_to: the checks run on the members of
\* the live diagram d, and a failure throws with d as the get_to left it.
CheckLoaded(d) ==
  IF ~Unique("class", d.classes) THEN Fail("load", d)
  ELSE IF ~Unique("relationship", d.relationships) THEN Fail("load", d)
  ELSE IF ~Includes(d.classes, RelationshipClasses(d.relationships), 1, 1)
  THEN Fail("load", d)
  ELSE Ok(d)

\* json.at("relationships").get_to(d.relationships_): throws when a
\* relationship throws, and assigns once every relationship has parsed (rs).
GetToRelationships(d, rs) ==
  IF \E k \in 1..Len(rs) : ~rs[k].ok THEN Fail("load", d)
  ELSE CheckLoaded([d EXCEPT !.relationships = [k \in 1..Len(rs) |-> rs[k].val]])

\* json.at("classes").get_to(d.classes_): throws when a class throws, and
\* assigns once every class has parsed (cs).
GetToClasses(d, cs, rs) ==
  IF \E k \in 1..Len(cs) : ~cs[k].ok THEN Fail("load", d)
  ELSE GetToRelationships([d EXCEPT !.classes = [k \in 1..Len(cs) |-> cs[k].val]], rs)

\* from_json(Diagram) as Diagram::Load runs it, on the live diagram d
Diagram_FromJson(d, doc) ==
  GetToClasses(d,
               [k \in 1..Len(doc.classes) |-> Class_FromJson(doc.classes[k])],
               [k \in 1..Len(doc.relationships) |->
                  Relationship_FromJson(doc.relationships[k])])

\* Diagram::Load: json::parse throws before from_json touches the diagram.
Diagram_Load(d, fs, file_name) ==
  IF file_name \notin DOMAIN fs THEN { Fail("load", d) }
  ELSE IF ~fs[file_name].json THEN { Fail("load", d) }
  ELSE { Diagram_FromJson(d, fs[file_name]) }

\* Paths no std::ofstream can open for writing.
Unwritable == {"/"}

\* Diagram::Save: the file system as the call leaves it.
Diagram_Save(d, fs, file_name) ==
  IF file_name \in Unwritable THEN Fail("save", fs)
  ELSE Ok([f \in DOMAIN fs \cup {file_name} |->
             IF f = file_name THEN Diagram_ToJson(d) ELSE fs[f]])

----------------------------------------------------------------------------
(* Commands (commands.hpp, commands.cpp, base_commands.cpp).  A command is  *)
(* its template name with its parsed arguments.                             *)

Cmd(op, args) == [op |-> op, args |-> args]

\* DefineUntrackableCommand(...) in commands.hpp; every other command is
\* declared with DefineCommand and inherits Command::Trackable.
UntrackableOps == {"save", "list all", "list classes", "list relationships",
                   "list class", "help", "exit", "undo", "redo"}

\* Command::Trackable / UntrackableCommand::Trackable
Trackable(cmd) == cmd.op \notin UntrackableOps

\* the Class call a command makes on the class c it looked up
ClassCall(cmd, c) ==
  CASE cmd.op = "field rename" -> Class_RenameField(c, cmd.args[2], cmd.args[3])
    [] cmd.op = "field add" -> Class_AddField(c, cmd.args[2], cmd.args[3])
    [] cmd.op = "field remove" -> Class_DeleteField(c, cmd.args[2])
    [] cmd.op = "field retype" -> RetypeFieldIn(c, cmd.args[2], cmd.args[3])
    [] cmd.op = "method rename" -> Class_RenameMethod(c, cmd.args[2], cmd.args[3])
    [] cmd.op = "parameter add" ->
         Class_AddParameter(c, cmd.args[2], cmd.args[3], cmd.args[4])
    [] cmd.op = "parameter remove" -> Class_DeleteParameter(c, cmd.args[2], cmd.args[3])
    [] cmd.op = "parameter retype" ->
         Class_ChangeParameterType(c, cmd.args[2], cmd.args[3], cmd.args[4])
    [] cmd.op = "parameters clear" -> Class_DeleteParameters(c, cmd.args[2])
    [] cmd.op = "parameters set" -> Class_ChangeParameters(c, cmd.args[2], cmd.args[3])
    [] cmd.op = "method add" ->
         Class_AddMethod(c, cmd.args[2].name, cmd.args[2].return_type,
                         cmd.args[2].parameters)
    [] cmd.op = "method remove" -> Class_DeleteMethod(c, cmd.args[2])
    [] cmd.op = "method change-return-type" ->
         ChangeReturnTypeAt(c, GetMethodFromSignature(c, cmd.args[2]), cmd.args[3])
    [] cmd.op = "parameter rename" ->
         RenameParameterAt(c, GetMethodFromSignature(c, cmd.args[2]),
                           cmd.args[3], cmd.args[4])

\* diagram.GetClass(cls).and_then([&](auto c) { return c-><call>; }), past
\* GetClass, which returned found
InClass(cmd, d, found) ==
  IF ~found.ok THEN { Fail(found.err, d) }
  ELSE { [ok |-> o.ok, err |-> o.err, val |-> [d EXCEPT !.classes[found.val] = o.val]] :
         o \in ClassCall(cmd, d.classes[found.val]) }

MemberOps == {"field rename", "method rename", "parameter add", "parameter remove",
              "parameter retype", "parameters clear", "parameters set",
              "method add", "method remove", "method change-return-type",
              "parameter rename", "field add", "field remove", "field retype"}

\* <Name>Command::Execute on diagram d with the file system fs.
Execute(cmd, d, fs) ==
  LET a == cmd.args IN
  CASE cmd.op \in MemberOps -> InClass(cmd, d, GetClass(d, cmd.args[1]))
    [] cmd.op = "load" -> Diagram_Load(d, fs, a[1])
    [] cmd.op = "class add" -> Diagram_AddClass(d, a[1])
    [] cmd.op = "class remove" -> Diagram_DeleteClass(d, a[1])
    [] cmd.op = "class rename" -> Diagram_RenameClass(d, a[1], a[2])
    [] cmd.op = "relationship add" -> Diagram_AddRelationship(d, a[1], a[2], a[3])
    [] cmd.op = "relationship remove" -> Diagram_DeleteRelationship(d, a[1], a[2])
    [] cmd.op = "relationship change source" ->
         Diagram_ChangeRelationshipSource(d, a[1], a[2], a[3])
    [] cmd.op = "relationship change destination" ->
         Diagram_ChangeRelationshipDestination(d, a[1], a[2], a[3])

\* A command object: the command and Command::prior_state_, which is empty
\* until Commit and holds one diagram afterwards.
Command(cmd, prior) == [cmd |-> cmd, prior_state |-> prior]

\* Fault: Execute runs, then the snapshot is taken.
Commit_SnapshotAfterExecute(cmd, d, fs) ==
  { [command |-> Command(cmd, <<o.val>>), result |-> o] : o \in Execute(cmd, d, fs) }

\* Command::Commit: the snapshot is taken, then Execute runs.
Commit(cmd, d, fs) ==
  { [command |-> Command(cmd, <<d>>), result |-> o] : o \in Execute(cmd, d, fs) }

\* Fault: the snapshot is restored whether or not the command is trackable.
Command_Undo_AlwaysRestoring(c, d) ==
  IF c.prior_state # <<>> THEN Ok(c.prior_state[1])
  ELSE IF ~Trackable(c.cmd) THEN Ok(d)
  ELSE Fail("no prior state", d)

\* Command::Undo
Command_Undo(c, d) ==
  IF ~Trackable(c.cmd) THEN Ok(d)
  ELSE IF c.prior_state # <<>> THEN Ok(c.prior_state[1])
  ELSE Fail("no prior state", d)

\* Fault: the command is appended without erasing what lies at or after the
\* cursor.
Timeline_Add_KeepingBranch(tl, idx, c) ==
  IF Trackable(c.cmd)
  THEN [timeline |-> Append(tl, c), index |-> idx + 1]
  ELSE [timeline |-> tl, index |-> idx]

\* Fault: the command is appended and the cursor stays where it was.
Timeline_Add_WithoutAdvancing(tl, idx, c) ==
  IF Trackable(c.cmd)
  THEN [timeline |-> Append(SubSeq(tl, 1, idx), c), index |-> idx]
  ELSE [timeline |-> tl, index |-> idx]

\* Timeline::Add
Timeline_Add(tl, idx, c) ==
  IF Trackable(c.cmd)
  THEN [timeline |-> Append(SubSeq(tl, 1, idx), c), index |-> idx + 1]
  ELSE [timeline |-> tl, index |-> idx]

\* Timeline::Undo: the Result, with the command it holds as a sequence of at
\* most one, and index_ as the call leaves it
Timeline_Undo(tl, idx) ==
  IF idx = 0 THEN [ok |-> FALSE, command |-> <<>>, index |-> idx]
  ELSE [ok |-> TRUE, command |-> <<tl[idx]>>, index |-> idx - 1]

\* Fault: the command at the cursor is returned and the cursor stays.
Timeline_Redo_WithoutAdvancing(tl, idx) ==
  IF idx >= Len(tl) THEN [ok |-> FALSE, command |-> <<>>, index |-> idx]
  ELSE [ok |-> TRUE, command |-> <<tl[idx + 1]>>, index |-> idx]

\* Timeline::Redo
Timeline_Redo(tl, idx) ==
  IF idx >= Len(tl) THEN [ok |-> FALSE, command |-> <<>>, index |-> idx]
  ELSE [ok |-> TRUE, command |-> <<tl[idx + 1]>>, index |-> idx + 1]

\* UndoCommand::Execute: Timeline::Undo, then Command::Undo on what it returns.
UndoCommand_Execute(d, tl, idx) ==
  LET u == Timeline_Undo(tl, idx) IN
  IF ~u.ok THEN [diagram |-> d, index |-> u.index, ok |-> FALSE, err |-> "cannot undo"]
  ELSE LET r == Command_Undo(u.command[1], d)
       IN  [diagram |-> r.val, index |-> u.index, ok |-> r.ok]

\* RedoCommand::Execute: Timeline::Redo, then Execute on what it returns.
RedoCommand_Execute(d, tl, idx, fs) ==
  LET r == Timeline_Redo(tl, idx) IN
  IF ~r.ok
  THEN { [diagram |-> d, index |-> r.index, ok |-> FALSE, err |-> "cannot redo"] }
  ELSE { [diagram |-> o.val, index |-> r.index, ok |-> o.ok, err |-> o.err] :
         o \in Execute(r.command[1].cmd, d, fs) }

----------------------------------------------------------------------------
(* The command loop cli::CLI.  One action is one pass of the loop: the      *)
(* command is built, Commit snapshots the diagram and executes, and the     *)
(* command is added to the Timeline when Commit succeeded.                  *)

\* Names a user may type where a class name is expected: two identifiers and
\* a text that starts with a digit.
NamePool == { <<"a">>, <<"b">>, <<"1">> }

RelTypePool == {"Aggregation"}

JsonClass(name) ==
  [name |-> name, fields |-> <<>>, methods |-> <<>>, position |-> Point0]

JsonRelationship(source, destination, type) ==
  [source |-> source, destination |-> destination, type |-> type]

\* A file a Save of a well-formed diagram could have written.  The class c
\* is one no command of the structural pools names.
ValidDocument ==
  Document(<<JsonClass(<<"a">>), JsonClass(<<"b">>), JsonClass(<<"c">>)>>,
           <<JsonRelationship(<<"a">>, <<"a">>, "Aggregation"),
             JsonRelationship(<<"a">>, <<"c">>, "Inheritance"),
             JsonRelationship(<<"b">>, <<"a">>, "Composition"),
             JsonRelationship(<<"c">>, <<"a">>, "Realization"),
             JsonRelationship(<<"c">>, <<"c">>, "Realization")>>)

\* The files of a directory that holds only a diagram saved earlier.
SavedFiles == [f \in {"saved"} |-> ValidDocument]

\* no call of the validator yet
NoCall == [fn |-> "none", text |-> <<>>, start |-> 0, result |-> Ok(0)]

\* The commands validate their names and types through Check, which keeps
\* the outcome of the validator only; what is left on the stack is followed
\* for the calls ValidTypeCall makes.
InitDiagram ==
  /\ diagram = EmptyDiagram
  /\ timeline = <<>>
  /\ index = 0
  /\ last = [op |-> "none", ok |-> TRUE]
  /\ stack = <<>>
  /\ call = NoCall

\* Fault: the command is added to the Timeline whatever Commit returned.
Run_AddingAlways(cmd) ==
  \E c \in Commit(cmd, diagram, files) :
    LET t == Timeline_Add(timeline, index, c.command) IN
    /\ t.index <= MaxHistory
    /\ diagram' = c.result.val
    /\ timeline' = t.timeline
    /\ index' = t.index
    /\ last' = [op |-> cmd.op, ok |-> c.result.ok]
    /\ UNCHANGED <<files, stack, call>>

\* cmd->Commit(diagram).transform([&] { Timeline::GetInstance().Add(cmd); })
Run(cmd) ==
  \E c \in Commit(cmd, diagram, files) :
    LET t == Timeline_Add(timeline, index, c.command) IN
    /\ c.result.ok => t.index <= MaxHistory
    /\ diagram' = c.result.val
    /\ timeline' = IF c.result.ok THEN t.timeline ELSE timeline
    /\ index' = IF c.result.ok THEN t.index ELSE index
    /\ last' = [op |-> cmd.op, ok |-> c.result.ok]
    /\ UNCHANGED <<files, stack, call>>

Load ==
  /\ \E f \in DOMAIN files \cup {"missing"} : Run(Cmd("load", <<f>>))

AddClass ==
  /\ \E n \in NamePool : Run(Cmd("class add", <<n>>))

RemoveClass ==
  /\ \E n \in NamePool : Run(Cmd("class remove", <<n>>))

RenameClass ==
  /\ \E n, m \in NamePool : Run(Cmd("class rename", <<n, m>>))

AddRelationship ==
  /\ \E n, m \in NamePool : \E t \in RelTypePool :
       Run(Cmd("relationship add", <<n, m, t>>))

RemoveRelationship ==
  /\ \E n, m \in NamePool : Run(Cmd("relationship remove", <<n, m>>))

ChangeSource ==
  /\ \E n, m, x \in NamePool :
       Run(Cmd("relationship change source", <<n, m, x>>))

ChangeDestination ==
  /\ \E n, m, x \in NamePool :
       Run(Cmd("relationship change destination", <<n, m, x>>))

\* the loop running "undo"
Undo ==
  LET r == UndoCommand_Execute(diagram, timeline, index) IN
  /\ diagram' = r.diagram
  /\ index' = r.index
  /\ last' = [op |-> "undo", ok |-> r.ok]
  /\ UNCHANGED <<timeline, files, stack, call>>

\* the loop running "redo"
Redo ==
  \E r \in RedoCommand_Execute(diagram, timeline, index, files) :
    /\ diagram' = r.diagram
    /\ index' = r.index
    /\ last' = [op |-> "redo", ok |-> r.ok]
    /\ UNCHANGED <<timeline, files, stack, call>>

\* the loop running "save": SaveCommand is untrackable, so Timeline::Add
\* leaves the Timeline alone.
Save ==
  /\ \E f \in {"saved"} \cup Unwritable :
       /\ files' = Diagram_Save(diagram, files, f).val
       /\ last' = [op |-> "save", ok |-> Diagram_Save(diagram, files, f).ok]
  /\ UNCHANGED <<diagram, timeline, index, stack, call>>

\* What a user may type for the arguments of the member commands.  A
\* [method_signature] and a [param_list] are parsed in full by
\* MethodSignature::FromString and Parameter::MultipleFromString, so only
\* well-formed ones reach Execute; a [name] or a [type] is any token that
\* Split leaves, which is not empty and holds no space.
MemberClassPool == { <<"a">> }

SignaturePool ==
  { MethodSignature(<<"f">>, <<>>), MethodSignature(<<"f">>, << <<"i">> >>),
    MethodSignature(<<"g">>, << <<"i">> >>) }

ParameterNamePool == { <<"p">>, <<"q">> }

TypePool == { <<"i">>, <<"i", "!">>, <<"1">> }

MethodNamePool == { <<"f">>, <<"g">>, <<"1">> }

FieldNamePool == { <<"x">>, <<"y">>, <<"x", "!">>, <<"1">> }

ParameterListPool ==
  { << [name |-> <<"p">>, type |-> <<"i">>] >>,
    << [name |-> <<"q">>, type |-> <<"j">>] >>,
    << [name |-> <<"p">>, type |-> <<"i">>], [name |-> <<"p">>, type |-> <<"j">>] >> }

RenameField ==
  /\ \E c \in MemberClassPool : \E f, n \in FieldNamePool :
       Run(Cmd("field rename", <<c, f, n>>))

AddField ==
  /\ \E c \in MemberClassPool : \E f \in FieldNamePool : \E t \in TypePool :
       Run(Cmd("field add", <<c, f, t>>))

RemoveField ==
  /\ \E c \in MemberClassPool : \E f \in FieldNamePool :
       Run(Cmd("field remove", <<c, f>>))

RetypeField ==
  /\ \E c \in MemberClassPool : \E f \in FieldNamePool : \E t \in TypePool :
       Run(Cmd("field retype", <<c, f, t>>))

RenameMethod ==
  /\ \E c \in MemberClassPool : \E sig \in SignaturePool : \E n \in MethodNamePool :
       Run(Cmd("method rename", <<c, sig, n>>))

AddParameter ==
  /\ \E c \in MemberClassPool : \E sig \in SignaturePool :
       \E n \in ParameterNamePool : \E t \in TypePool :
         Run(Cmd("parameter add", <<c, sig, n, t>>))

RemoveParameter ==
  /\ \E c \in MemberClassPool : \E sig \in SignaturePool : \E n \in ParameterNamePool :
       Run(Cmd("parameter remove", <<c, sig, n>>))

RetypeParameter ==
  /\ \E c \in MemberClassPool : \E sig \in SignaturePool :
       \E n \in ParameterNamePool : \E t \in TypePool :
         Run(Cmd("parameter retype", <<c, sig, n, t>>))

ClearParameters ==
  /\ \E c \in MemberClassPool : \E sig \in SignaturePool :
       Run(Cmd("parameters clear", <<c, sig>>))

SetParameters ==
  /\ \E c \in MemberClassPool : \E sig \in SignaturePool : \E ps \in ParameterListPool :
       Run(Cmd("parameters set", <<c, sig, ps>>))

\* One pass of the loop in which Command::From returns an error: the message
\* is displayed and nothing else happens.
Rejected(op) ==
  /\ last' = [op |-> op, ok |-> FALSE]
  /\ UNCHANGED <<diagram, timeline, index, files, stack, call>>

\* Texts a user may type where a method definition is expected: f()->i,
\* f(p:i)->i, g(p:i,q:i)->i, one that repeats a parameter name,
\* g(p:i,p:j)->i, and one that stops short, f(p:i
MethodDefinitionPool ==
  { <<"f", "(", ")", "-", ">", "i">>,
    <<"f", "(", "p", ":", "i", ")", "-", ">", "i">>,
    <<"g", "(", "p", ":", "i", ",", "q", ":", "i", ")", "-", ">", "i">>,
    <<"g", "(", "p", ":", "i", ",", "p", ":", "j", ")", "-", ">", "i">>,
    <<"f", "(", "p", ":", "i">> }

\* ParseParam makes the Method of the [method_definition] token with
\* Method::FromString before the command exists.
AddMethod ==
  /\ \E c \in MemberClassPool :
       \E definition \in { Method_FromString(t) : t \in MethodDefinitionPool } :
         IF definition.ok THEN Run(Cmd("method add", <<c, definition.val>>))
         ELSE Rejected("method add")

RemoveMethod ==
  /\ \E c \in MemberClassPool : \E sig \in SignaturePool :
       Run(Cmd("method remove", <<c, sig>>))

ChangeReturnType ==
  /\ \E c \in MemberClassPool : \E sig \in SignaturePool : \E t \in TypePool :
       Run(Cmd("method change-return-type", <<c, sig, t>>))

\* the signatures of the methods whose parameters are renamed: f(i), f(i,i)
RenameSignaturePool ==
  { MethodSignature(<<"f">>, << <<"i">> >>),
    MethodSignature(<<"f">>, << <<"i">>, <<"i">> >>) }

RenameParameter ==
  /\ \E c \in MemberClassPool : \E sig \in RenameSignaturePool :
       \E n, m \in ParameterNamePool :
         Run(Cmd("parameter rename", <<c, sig, n, m>>))

\* The structural commands of the Diagram, with undo and redo, in a
\* directory that holds a diagram saved earlier.
InitStructural == InitDiagram /\ files = SavedFiles

NextStructural ==
  \/ Load
  \/ AddClass
  \/ RemoveClass
  \/ RenameClass
  \/ AddRelationship
  \/ RemoveRelationship
  \/ ChangeSource
  \/ ChangeDestination
  \/ Undo
  \/ Redo

SpecStructural == InitStructural /\ [][NextStructural]_vars

\* A diagram saved after 'class add a', 'class add ab' and two relationships
\* between them, in the order in which Save writes them.
PairDocument ==
  Document(<<JsonClass(<<"a">>), JsonClass(<<"a", "b">>)>>,
           <<JsonRelationship(<<"a">>, <<"a", "b">>, "Aggregation"),
             JsonRelationship(<<"a", "b">>, <<"a">>, "Composition")>>)

PairFiles == [f \in {"pair"} |-> PairDocument]

\* Structural editing of a diagram in which a rename moves a class past
\* another one.
InitRenaming == InitDiagram /\ files = PairFiles

NextRenaming ==
  \/ Load
  \/ AddClass
  \/ RemoveClass
  \/ RenameClass
  \/ AddRelationship
  \/ RemoveRelationship
  \/ ChangeSource
  \/ ChangeDestination
  \/ Undo
  \/ Redo

SpecRenaming == InitRenaming /\ [][NextRenaming]_vars

\* Files that are JSON but that from_json(Diagram) rejects.
DuplicateClassDocument ==
  Document(<<JsonClass(<<"b">>), JsonClass(<<"b">>)>>, <<>>)

InvalidEndpointDocument ==
  Document(<<JsonClass(<<"b">>)>>,
           <<JsonRelationship(<<"b">>, <<"1">>, "Aggregation")>>)

\* A directory that holds files of every kind.
AllFiles ==
  [f \in {"saved", "duplicate", "bad endpoint", "not json"} |->
     CASE f = "saved" -> ValidDocument
       [] f = "duplicate" -> DuplicateClassDocument
       [] f = "bad endpoint" -> InvalidEndpointDocument
       [] f = "not json" -> NoDocument]

\* Loading and editing in a directory that holds files of every kind.
InitPersistence == InitDiagram /\ files = AllFiles

NextPersistence ==
  \/ Load
  \/ AddClass
  \/ Undo
  \/ Redo

SpecPersistence == InitPersistence /\ [][NextPersistence]_vars

JsonParameter(name, type) == [name |-> name, type |-> type]

JsonMethod(name, return_type, params) ==
  [name |-> name, return_type |-> return_type, params |-> params]

\* A file a Save of a well-formed diagram could have written: the class a
\* with the fields x and y and the methods f(), f(p:i) and g(p:i), and the
\* class b that a aggregates.
MembersDocument ==
  Document(<<[name |-> <<"a">>,
              fields |-> <<JsonParameter(<<"x">>, <<"i">>),
                           JsonParameter(<<"y">>, <<"i">>)>>,
              methods |-> <<JsonMethod(<<"f">>, <<"i">>, <<>>),
                            JsonMethod(<<"f">>, <<"i">>,
                                       <<JsonParameter(<<"p">>, <<"i">>)>>),
                            JsonMethod(<<"g">>, <<"i">>,
                                       <<JsonParameter(<<"p">>, <<"i">>)>>)>>,
              position |-> Point0],
             JsonClass(<<"b">>)>>,
           <<JsonRelationship(<<"a">>, <<"b">>, "Aggregation")>>)

MembersFiles == [f \in {"members"} |-> MembersDocument]

\* Editing the fields, methods and parameters of the classes of a saved
\* diagram, with undo and redo.
InitMembers == InitDiagram /\ files = MembersFiles

NextMembers ==
  \/ Load
  \/ RenameField
  \/ RenameMethod
  \/ AddParameter
  \/ RemoveParameter
  \/ RetypeParameter
  \/ ClearParameters
  \/ SetParameters
  \/ Undo
  \/ Redo

SpecMembers == InitMembers /\ [][NextMembers]_vars

\* Editing the fields of the class of a saved diagram.
NextFields ==
  \/ Load
  \/ AddField
  \/ RemoveField
  \/ RenameField
  \/ RetypeField
  \/ Undo
  \/ Redo

SpecFields == InitMembers /\ [][NextFields]_vars

\* the text t with one of the characters chars put in at any one place
WithInserted(t, chars) ==
  { SubSeq(t, 1, k) \o <<ch>> \o SubSeq(t, k + 1, Len(t)) : k \in 0..Len(t), ch \in chars }

InsertedPool == { " ", ",", "*" }

\* Texts a user may type where a method definition is expected: f()->i and
\* g(p:i,q:j)->i, as they are and with one more character anywhere.
MethodTextPool ==
  LET f == <<"f", "(", ")", "-", ">", "i">>
      g == <<"g", "(", "p", ":", "i", ",", "q", ":", "j", ")", "-", ">", "i">>
  IN  {f, g} \cup WithInserted(f, InsertedPool) \cup WithInserted(g, InsertedPool)

\* Texts typed where a method signature is expected: f(), f(i), g(i) and
\* g(x<i>,j), as they are and with one more character anywhere.
SignatureTextPool ==
  LET f == <<"f", "(", ")">>
      fi == <<"f", "(", "i", ")">>
      gi == <<"g", "(", "i", ")">>
      g == <<"g", "(", "x", "<", "i", ">", ",", "j", ")">>
  IN  {f, fi, gi, g} \cup WithInserted(f, InsertedPool) \cup WithInserted(g, InsertedPool)

\* Texts typed where a parameter list is expected: the empty text, p:i and
\* p:i,q:j, as they are and with one more character anywhere.
ParameterListTextPool ==
  LET p == <<"p", ":", "i">>
      pq == <<"p", ":", "i", ",", "q", ":", "j">>
  IN  {<<>>, p, pq} \cup WithInserted(<<>>, InsertedPool)
        \cup WithInserted(p, InsertedPool) \cup WithInserted(pq, InsertedPool)

\* Texts of one parameter: p:i and p:x<i,j>, as they are and with one more
\* character anywhere.
ParameterTextPool ==
  LET p == <<"p", ":", "i">>
      pm == <<"p", ":", "x", "<", "i", ",", "j", ">">>
  IN  {p, pm} \cup WithInserted(p, InsertedPool) \cup WithInserted(pm, InsertedPool)

\* ParseParam<AddMethodCommand, 1>, then the command
AddMethodParsed ==
  /\ \E c \in MemberClassPool :
       \E definition \in { Method_FromString(t) : t \in MethodTextPool } :
         IF definition.ok THEN Run(Cmd("method add", <<c, definition.val>>))
         ELSE Rejected("method add")

\* ParseParam<RemoveMethodCommand, 1>, then the command
RemoveMethodParsed ==
  /\ \E c \in MemberClassPool :
       \E sig \in { MethodSignature_FromString(t) : t \in SignatureTextPool } :
         IF sig.ok THEN Run(Cmd("method remove", <<c, sig.val>>))
         ELSE Rejected("method remove")

\* ParseParam<SetParametersCommand, 1> and <.., 2>, then the command
SetParametersParsed ==
  /\ \E c \in MemberClassPool :
       \E sig \in { MethodSignature_FromString(t) : t \in SignatureTextPool } :
         \E parameters \in { Parameter_MultipleFromString(t) : t \in ParameterListTextPool } :
           IF sig.ok /\ parameters.ok
           THEN Run(Cmd("parameters set", <<c, sig.val, parameters.val>>))
           ELSE Rejected("parameters set")

\* A file whose class holds the fields z, y in that order.
UnsortedFieldsDocument ==
  Document(<<[name |-> <<"a">>,
              fields |-> <<JsonParameter(<<"z">>, <<"i">>),
                           JsonParameter(<<"y">>, <<"i">>)>>,
              methods |-> <<>>,
              position |-> Point0]>>, <<>>)

UnsortedFieldsFiles == [f \in {"unsorted"} |-> UnsortedFieldsDocument]

\* Editing the fields of a class loaded from that file.
InitLoadedFields == InitDiagram /\ files = UnsortedFieldsFiles

SpecLoadedFields == InitLoadedFields /\ [][NextFields]_vars

\* A file whose one method has two parameters named p.
RepeatedParameterDocument ==
  Document(<<[name |-> <<"a">>, fields |-> <<>>,
              methods |-> <<JsonMethod(<<"f">>, <<"i">>,
                                       <<JsonParameter(<<"p">>, <<"i">>),
                                         JsonParameter(<<"p">>, <<"j">>)>>)>>,
              position |-> Point0]>>, <<>>)

\* A file a Save could have written: the class a with the methods f(p:i)
\* and g(p:i).
MethodsDocument ==
  Document(<<[name |-> <<"a">>, fields |-> <<>>,
              methods |-> <<JsonMethod(<<"f">>, <<"i">>,
                                       <<JsonParameter(<<"p">>, <<"i">>)>>),
                            JsonMethod(<<"g">>, <<"i">>,
                                       <<JsonParameter(<<"p">>, <<"i">>)>>)>>,
              position |-> Point0]>>, <<>>)

MethodsFiles ==
  [f \in {"methods", "repeated"} |->
     IF f = "methods" THEN MethodsDocument ELSE RepeatedParameterDocument]

\* Adding, removing and changing the methods of a class and their
\* parameters.
InitMethods == InitDiagram /\ files = MethodsFiles

NextMethods ==
  \/ Load
  \/ AddMethod
  \/ RemoveMethod
  \/ RenameMethod
  \/ ChangeReturnType
  \/ AddParameter
  \/ RemoveParameter
  \/ RenameParameter
  \/ RetypeParameter
  \/ ClearParameters
  \/ SetParameters

SpecMethods == InitMethods /\ [][NextMethods]_vars

\* Commands whose arguments are parsed from the texts typed.
NextParsing ==
  \/ Load
  \/ AddMethodParsed
  \/ RemoveMethodParsed
  \/ SetParametersParsed

SpecParsing == InitMethods /\ [][NextParsing]_vars

\* The JSON diagrams a file may hold: up to two classes named a or b with up
\* to two relationships between a, b and c, in any order; and one class a
\* with fields, methods and parameters that may repeat.
ClassLists ==
  { <<>> } \cup { <<JsonClass(n)>> : n \in { <<"a">>, <<"b">> } }
    \cup { <<JsonClass(n), JsonClass(m)>> :
             n \in { <<"a">>, <<"b">> }, m \in { <<"a">>, <<"b">> } }

EndpointPool == { <<"a">>, <<"b">>, <<"c">> }

RelationshipLists ==
  { <<>> }
    \cup { <<JsonRelationship(n, m, "Aggregation")>> :
             n \in EndpointPool, m \in EndpointPool }
    \cup { <<JsonRelationship(n, m, "Aggregation"), JsonRelationship(x, y, t)>> :
             n \in EndpointPool, m \in EndpointPool,
             x \in EndpointPool, y \in EndpointPool,
             t \in {"Aggregation", "Composition"} }

FieldLists ==
  { <<>>,
    <<JsonParameter(<<"x">>, <<"i">>), JsonParameter(<<"x">>, <<"j">>)>>,
    <<JsonParameter(<<"x">>, <<"i">>), JsonParameter(<<"y">>, <<"i">>)>> }

MethodLists ==
  { <<>>,
    <<JsonMethod(<<"f">>, <<"i">>, <<>>), JsonMethod(<<"f">>, <<"j">>, <<>>)>>,
    <<JsonMethod(<<"f">>, <<"i">>, <<JsonParameter(<<"p">>, <<"i">>)>>),
      JsonMethod(<<"f">>, <<"i">>, <<JsonParameter(<<"q">>, <<"i">>)>>)>>,
    <<JsonMethod(<<"f">>, <<"i">>, <<JsonParameter(<<"p">>, <<"i">>)>>),
      JsonMethod(<<"g">>, <<"i">>, <<JsonParameter(<<"p">>, <<"i">>)>>)>>,
    <<JsonMethod(<<"f">>, <<"i">>, <<JsonParameter(<<"p">>, <<"i">>),
                                     JsonParameter(<<"p">>, <<"j">>)>>)>>,
    <<JsonMethod(<<"f">>, <<"i">>, <<JsonParameter(<<"p">>, <<"i">>),
                                     JsonParameter(<<"q">>, <<"i">>)>>)>> }

DocumentPool ==
  { Document(cs, rs) : cs \in ClassLists, rs \in RelationshipLists }
    \cup { Document(<<[name |-> <<"a">>, fields |-> fs, methods |-> ms,
                       position |-> Point0]>>, <<>>) :
             fs \in FieldLists, ms \in MethodLists }

\* Loading a file that holds any one of the JSON diagrams, with undo and
\* redo.
InitDecoding ==
  /\ InitDiagram
  /\ files \in { [f \in {"file"} |-> doc] : doc \in DocumentPool }

NextDecoding ==
  \/ Load
  \/ Undo
  \/ Redo

SpecDecoding == InitDecoding /\ [][NextDecoding]_vars

----------------------------------------------------------------------------
(* Direct calls of the grammar validator (utils.hpp).                       *)

MaxStack == 2        \* longest static stack explored

\* lists of type expressions: none, i, and i with b<i>*
TypeListPool ==
  { <<>>, << <<"i">> >>, << <<"i">>, <<"b", "<", "i", ">", "*">> >> }

Openers == { "[", "(", "<" }
Closers == { "]", ")", ">" }

\* a o t1,...,tn c
Bracketed(o, c, ts) == <<"a", o>> \o Joined(ts, <<",">>) \o <<c>>

\* a o t1,...,tn with no closer
Unclosed(o, ts) == <<"a", o>> \o Joined(ts, <<",">>)

\* a o t1,...,tn, c with a comma before the closer
CommaBeforeCloser(o, ts) == <<"a", o>> \o Joined(ts, <<",">>) \o <<",", Closer(o)>>

\* Texts handed to the validator: bracketed lists closed by every kind of
\* closer, unclosed ones, ones with a trailing comma, a list that goes wrong
\* two levels deep, and a few names.
GrammarTextPool ==
  { Bracketed(o, c, ts) : o \in Openers, c \in Closers, ts \in TypeListPool }
    \cup { Unclosed(o, ts) : o \in Openers, ts \in TypeListPool }
    \cup { CommaBeforeCloser(o, ts) : o \in Openers, ts \in TypeListPool }
    \cup { <<"a", "<", "b", "(", "i", "]", ">">> }
    \cup { <<>>, <<"_", "a", "1">>, <<"a", " ", "b">>, <<"1", "a">>, <<"a", "!", "b", "9">> }

\* ValidType(t, start), called with the stack as the earlier calls left it
ValidTypeCall ==
  /\ \E t \in GrammarTextPool : \E start \in 0..Len(t) :
       \E r \in { ValidTypeS(t, start, stack) } :
         /\ Len(r.stack) <= MaxStack
         /\ stack' = r.stack
         /\ call' = [fn |-> "ValidType", text |-> t, start |-> start,
                     result |-> Returned(r)]
  /\ UNCHANGED <<diagram, timeline, index, files, last>>

\* ValidIdentifier(t, start)
ValidIdentifierCall ==
  /\ \E t \in GrammarTextPool : \E start \in 0..Len(t) :
       call' = [fn |-> "ValidIdentifier", text |-> t, start |-> start,
                result |-> ValidIdentifier(t, start)]
  /\ UNCHANGED <<diagram, timeline, index, files, last, stack>>

NextGrammar ==
  \/ ValidTypeCall
  \/ ValidIdentifierCall

SpecGrammar == InitStructural /\ [][NextGrammar]_vars

----------------------------------------------------------------------------
(* Command::From (base_commands.cpp): the resolver of the tokens typed.     *)
(* A token and a word of a template are strings.                            *)

\* commands::CommandStrings split at the spaces, in the order of AllCommands
SPLIT ==
  << <<"load", "[filename]">>,
     <<"save", "[filename]">>,
     <<"list", "all">>,
     <<"list", "classes">>,
     <<"list", "relationships">>,
     <<"list", "class", "[class_name]">>,
     <<"help">>,
     <<"exit">>,
     <<"undo">>,
     <<"redo">>,
     <<"class", "add", "[name]">>,
     <<"class", "remove", "[class_name]">>,
     <<"class", "rename", "[class_name]", "[name]">>,
     <<"class", "move", "[class_name]", "[int]", "[int]">>,
     <<"field", "add", "[class_name]", "[name]", "[type]">>,
     <<"field", "remove", "[class_name]", "[field_name]">>,
     <<"field", "rename", "[class_name]", "[field_name]", "[name]">>,
     <<"field", "retype", "[class_name]", "[field_name]", "[type]">>,
     <<"method", "add", "[class_name]", "[method_definition]">>,
     <<"method", "remove", "[class_name]", "[method_signature]">>,
     <<"method", "rename", "[class_name]", "[method_signature]", "[name]">>,
     <<"method", "change-return-type", "[class_name]", "[method_signature]", "[type]">>,
     <<"parameter", "add", "[class_name]", "[method_signature]", "[name]", "[type]">>,
     <<"parameter", "remove", "[class_name]", "[method_signature]", "[param_name]">>,
     <<"parameter", "rename", "[class_name]", "[method_signature]", "[param_name]",
       "[name]">>,
     <<"parameter", "retype", "[class_name]", "[method_signature]", "[param_name]",
       "[type]">>,
     <<"parameters", "clear", "[class_name]", "[method_signature]">>,
     <<"parameters", "set", "[class_name]", "[method_signature]", "[param_list]">>,
     <<"relationship", "add", "[class_name]", "[class_name]", "[relationship_type]">>,
     <<"relationship", "remove", "[class_source]", "[class_destination]">>,
     <<"relationship", "change", "source", "[class_source]", "[class_destination]",
       "[class_name]">>,
     <<"relationship", "change", "destination", "[class_source]", "[class_destination]",
       "[class_name]">>,
     <<"relationship", "change", "type", "[class_source]", "[class_destination]",
       "[relationship_type]">> >>

NumCommands == Len(SPLIT)

\* the words of the templates that begin with '['
Holes == {"[filename]", "[class_name]", "[name]", "[int]", "[type]", "[field_name]",
          "[method_definition]", "[method_signature]", "[param_name]", "[param_list]",
          "[relationship_type]", "[class_source]", "[class_destination]"}

\* The characters of the tokens that are parsed.
TokenText ==
  [token \in {"a", "1", "-19", "1a", "p:i", "p", "f(i)", "f(p:i)->i"} |->
     CASE token = "a" -> <<"a">>
       [] token = "1" -> <<"1">>
       [] token = "-19" -> <<"-", "1", "9">>
       [] token = "1a" -> <<"1", "a">>
       [] token = "p:i" -> <<"p", ":", "i">>
       [] token = "p" -> <<"p">>
       [] token = "f(i)" -> <<"f", "(", "i", ")">>
       [] token = "f(p:i)->i" -> <<"f", "(", "p", ":", "i", ")", "-", ">", "i">>]

DigitValue(c) == CASE c = "0" -> 0 [] c = "1" -> 1 [] c = "9" -> 9

RECURSIVE Digits10(_, _)
\* the digits of t read as a decimal number, after the value acc
Digits10(t, acc) ==
  IF t = <<>> THEN acc ELSE Digits10(Tail(t), 10 * acc + DigitValue(Head(t)))

\* IntFromString: std::from_chars into an int; the whole text has to be read
IntFromString(t) ==
  LET digits == IF t # <<>> /\ Head(t) = "-" THEN Tail(t) ELSE t
      value == IF digits = t THEN Digits10(digits, 0) ELSE 0 - Digits10(digits, 0)
  IN  IF digits = <<>> THEN Fail("validation", 0)
      ELSE IF \E k \in 1..Len(digits) : ~Digit(digits[k]) THEN Fail("validation", 0)
      ELSE IF value < (0 - 2147483647) - 1 \/ value > 2147483647 THEN Fail("validation", 0)
      ELSE Ok(value)

\* RelationshipTypeFromString
RelationshipTypeFromString(s) ==
  IF s \in RelationshipType THEN Ok(s) ELSE Fail("validation", s)

\* ParseParam<Command, Index>(arg), param being the word of the template
ParseParam(param, arg) ==
  CASE param = "[param_list]" -> Parameter_MultipleFromString(TokenText[arg])
    [] param = "[method_signature]" -> MethodSignature_FromString(TokenText[arg])
    [] param = "[method_definition]" -> Method_FromString(TokenText[arg])
    [] param = "[relationship_type]" -> RelationshipTypeFromString(arg)
    [] param = "[int]" -> IntFromString(TokenText[arg])
    [] OTHER -> Ok(arg)

\* the positions of the holes of the template i
HolesOf(i) == { k \in 1..Len(SPLIT[i]) : SPLIT[i][k] \in Holes }

\* Fault: a command is made of the tokens whether or not they parse.
MakeCommand_WithoutParsing(i, entered) ==
  IF Len(entered) # Len(SPLIT[i]) THEN Fail("arguments", {})
  ELSE Ok([template |-> i, args |-> [k \in HolesOf(i) |-> Ok(entered[k])]])

\* MakeCommand<Command>(entered) for the Command of template i: GetParams,
\* then ParseParam on the token of every hole
MakeCommand(i, entered) ==
  IF Len(entered) # Len(SPLIT[i]) THEN Fail("arguments", {})
  ELSE IF \E k \in HolesOf(i) : ~ParseParam(SPLIT[i][k], entered[k]).ok
  THEN Fail("parse", {})
  ELSE Ok([template |-> i,
           args |-> [k \in HolesOf(i) |-> ParseParam(SPLIT[i][k], entered[k])]])

RECURSIVE Narrow(_, _, _)
\* the for loop of Command::From and what follows it; cmds is the set of the
\* indices left in the vector cmds
Narrow(tokens, idx, cmds) ==
  IF cmds # {} /\ idx < Len(tokens)
  THEN LET kept == { i \in cmds : ~(idx >= Len(SPLIT[i])
                                    \/ SPLIT[i][idx + 1] # tokens[idx + 1]) }
       IN  IF Cardinality(kept) = 1
           THEN MakeCommand(CHOOSE i \in kept : TRUE, tokens)
           ELSE Narrow(tokens, idx + 1, kept)
  ELSE IF cmds = {} THEN Fail("invalid command", {})
  ELSE Fail("requires subcommand", cmds)

\* Command::From
Command_From(tokens) ==
  IF tokens = <<>> THEN Fail("empty command", {})
  ELSE Narrow(tokens, 0, 1..NumCommands)

\* the tokens typed for a hole: ones that parse and ones that do not
Typed(word) ==
  CASE word = "[param_list]" -> {"p:i", "p"}
    [] word = "[method_signature]" -> {"f(i)", "p"}
    [] word = "[method_definition]" -> {"f(p:i)->i", "f(i)"}
    [] word = "[relationship_type]" -> {"Aggregation", "aggregation"}
    [] word = "[int]" -> {"1", "-19", "1a"}
    [] word = "[name]" -> {"a", "1"}
    [] OTHER -> {"a"}

RECURSIVE Filled(_)
\* the template with every hole filled
Filled(template) ==
  IF template = <<>> THEN { <<>> }
  ELSE { <<head>> \o rest :
         head \in (IF Head(template) \in Holes THEN Typed(Head(template))
                   ELSE {Head(template)}),
         rest \in Filled(Tail(template)) }

\* Lines typed: the filled templates, what is typed of them up to any token,
\* the same with one token more, and the same with one token replaced.
TokensPool ==
  LET full == UNION { Filled(SPLIT[i]) : i \in 1..NumCommands }
      begun == UNION { { SubSeq(s, 1, n) : n \in 0..Len(s) } : s \in full }
  IN  begun \cup { Append(s, "a") : s \in begun }
        \cup UNION { { [s EXCEPT ![k] = "a"] : k \in 1..Len(s) } : s \in begun }

\* the loop of cli::CLI as far as Command::From
FromCall ==
  /\ \E tokens \in TokensPool :
       call' = [fn |-> "From", text |-> tokens, start |-> 0,
                result |-> Command_From(tokens)]
  /\ UNCHANGED <<diagram, timeline, index, files, last, stack>>

NextResolving ==
  \/ FromCall

SpecResolving == InitStructural /\ [][NextResolving]_vars

----------------------------------------------------------------------------
(* Properties of the structural commands.                                   *)

ClassNames(d) == { d.classes[k].name : k \in 1..Len(d.classes) }

Touches(r, name) == r.source = name \/ r.destination = name

\* the command the Timeline ran last, and the diagram it ran on
LastCommitted == timeline[index]

\* C1: after any sequence of the Diagram mutations, undo and redo, every
\* relationship's source and destination name a class of the diagram.
ReferentialIntegrity ==
  \A k \in 1..Len(diagram.relationships) :
    /\ diagram.relationships[k].source \in ClassNames(diagram)
    /\ diagram.relationships[k].destination \in ClassNames(diagram)

\* a class was deleted and relationships between other classes remain
ReferentialIntegrityWitness ==
  /\ last.op = "class remove" /\ last.ok
  /\ diagram.relationships # <<>>
  /\ LastCommitted.prior_state[1].relationships # diagram.relationships

\* C6: after any sequence of AddClass, DeleteClass, RenameClass, undo and
\* redo, no two classes of the diagram have the same name.
ClassNamesUnique ==
  \A i, j \in 1..Len(diagram.classes) :
    i # j => diagram.classes[i].name # diagram.classes[j].name

\* a rename succeeded in a diagram of several classes
ClassNamesUniqueWitness ==
  /\ last.op = "class rename" /\ last.ok
  /\ Len(diagram.classes) >= 2

\* C7: after any sequence of the Diagram mutations, undo and redo, no two
\* relationships have the same (source, destination) pair.
RelationshipKeysUnique ==
  \A i, j \in 1..Len(diagram.relationships) :
    i # j => ~Relationship_Eq(diagram.relationships[i], diagram.relationships[j])

\* the source of a relationship was changed while another relationship exists
RelationshipKeysUniqueWitness ==
  /\ last.op = "relationship change source" /\ last.ok
  /\ Len(diagram.relationships) >= 2

\* C9: in every diagram the commands reach, DeleteClass(c) fails and changes
\* nothing when no class is named c; when it succeeds, exactly the class c and
\* exactly the relationships with c as source or destination are gone,
\* everything else as it was.
DeleteClassExact ==
  \A n \in NamePool : \A o \in Diagram_DeleteClass(diagram, n) :
    /\ n \notin ClassNames(diagram) => ~o.ok /\ o.val = diagram
    /\ o.ok =>
         /\ n \in ClassNames(diagram)
         /\ o.val.classes = SelectSeq(diagram.classes, LAMBDA c : c.name # n)
         /\ o.val.relationships =
              SelectSeq(diagram.relationships, LAMBDA r : ~Touches(r, n))

\* a class was deleted that some relationships touched and others did not
DeleteClassExactWitness ==
  /\ last.op = "class remove" /\ last.ok
  /\ LET before == LastCommitted.prior_state[1]
         n == LastCommitted.cmd.args[1]
     IN  /\ \E k \in 1..Len(before.relationships) : Touches(before.relationships[k], n)
         /\ \E k \in 1..Len(before.relationships) : ~Touches(before.relationships[k], n)

\* the class old_name with its new name
Renamed(c, old_name, new_name) ==
  IF c.name = old_name THEN [c EXCEPT !.name = new_name] ELSE c

\* C10: in every diagram the commands reach, RenameClass(old, new) fails when
\* no class is named old or a class is already named new (and changes
\* nothing); when it succeeds the class is renamed, every
\* relationship endpoint equal to old is new, and the relationship types and
\* the other endpoints are as they were.
RenameClassExact ==
  \A n, m \in NamePool : \A o \in Diagram_RenameClass(diagram, n, m) :
    /\ (n \notin ClassNames(diagram) \/ m \in ClassNames(diagram)) =>
         ~o.ok /\ o.val = diagram
    /\ o.ok =>
         /\ Len(o.val.classes) = Len(diagram.classes)
         /\ \A k \in 1..Len(diagram.classes) :
              \E j \in 1..Len(o.val.classes) :
                o.val.classes[j] = Renamed(diagram.classes[k], n, m)
         /\ Len(o.val.relationships) = Len(diagram.relationships)
         /\ \A k \in 1..Len(diagram.relationships) :
              LET r == diagram.relationships[k] IN
              o.val.relationships[k] =
                [source |-> IF r.source = n THEN m ELSE r.source,
                 destination |-> IF r.destination = n THEN m ELSE r.destination,
                 type |-> r.type]

\* a class was renamed that is source of one relationship and destination of
\* another, beside a relationship it does not touch
RenameClassExactWitness ==
  /\ last.op = "class rename" /\ last.ok
  /\ LET before == LastCommitted.prior_state[1]
         n == LastCommitted.cmd.args[1]
         rels == before.relationships
     IN  /\ \E k \in 1..Len(rels) : rels[k].source = n /\ rels[k].destination # n
         /\ \E k \in 1..Len(rels) : rels[k].destination = n
         /\ \E k \in 1..Len(rels) : ~Touches(rels[k], n)

\* C20: AddRelationship(src, dst, type) succeeds exactly when src and dst
\* both name classes of the diagram and no relationship has the ordered pair
\* (src, dst), whatever its type; a failure leaves the diagram unchanged and
\* a success adds the one relationship (src, dst, type) and nothing else.
AddRelationshipExact ==
  \A src \in NamePool : \A dst \in NamePool : \A type \in RelationshipType :
    \A o \in Diagram_AddRelationship(diagram, src, dst, type) :
      /\ o.ok <=> /\ src \in ClassNames(diagram)
                  /\ dst \in ClassNames(diagram)
                  /\ ~\E k \in 1..Len(diagram.relationships) :
                        /\ diagram.relationships[k].source = src
                        /\ diagram.relationships[k].destination = dst
      /\ ~o.ok => o.val = diagram
      /\ o.ok => /\ o.val.classes = diagram.classes
                 /\ \E k \in 1..Len(o.val.relationships) :
                      /\ o.val.relationships[k].source = src
                      /\ o.val.relationships[k].destination = dst
                      /\ o.val.relationships[k].type = type
                      /\ RemoveAt(o.val.relationships, k) = diagram.relationships

\* a relationship has just been added to a diagram that holds relationships
\* of other pairs; adding it again with another type fails, and a pair of
\* classes without a relationship is left
AddRelationshipExactWitness ==
  /\ last.op = "relationship add" /\ last.ok
  /\ Len(diagram.relationships) > 2
  /\ LET r == LastCommitted.cmd.args
     IN  \A o \in Diagram_AddRelationship(diagram, r[1], r[2], "Composition") : ~o.ok
  /\ \E src \in NamePool : \E dst \in NamePool :
       \E o \in Diagram_AddRelationship(diagram, src, dst, "Inheritance") : o.ok

\* some relationship of the diagram d has the pair (src, dst)
HasPair(d, src, dst) ==
  \E k \in 1..Len(d.relationships) :
    d.relationships[k].source = src /\ d.relationships[k].destination = dst

\* the outcome o of changing the relationship (src, dst) into (src2, dst2):
\* it fails and leaves the diagram when the relationship does not exist,
\* when a relationship has the resulting pair, or when the new endpoint
\* names no class; otherwise the classes stay, and the relationships are
\* the same ones, with the same types, but for the ends of that one
ChangedEndpoint(o, src, dst, src2, dst2, new_endpoint) ==
  /\ o.ok <=> /\ HasPair(diagram, src, dst)
              /\ ~HasPair(diagram, src2, dst2)
              /\ new_endpoint \in ClassNames(diagram)
  /\ ~o.ok => o.val = diagram
  /\ o.ok => /\ o.val.classes = diagram.classes
             /\ Len(o.val.relationships) = Len(diagram.relationships)
             /\ { o.val.relationships[k] : k \in 1..Len(o.val.relationships) }
                  = { IF diagram.relationships[k].source = src
                         /\ diagram.relationships[k].destination = dst
                      THEN [diagram.relationships[k] EXCEPT
                              !.source = src2, !.destination = dst2]
                      ELSE diagram.relationships[k] :
                      k \in 1..Len(diagram.relationships) }

\* C21: ChangeRelationshipSource and ChangeRelationshipDestination fail and
\* leave the diagram unchanged if the relationship does not exist, if a
\* relationship already has the resulting (source, destination) pair, or if
\* the new endpoint names no class; otherwise only that relationship's
\* endpoint changes.
ChangeEndpointExact ==
  \A src \in NamePool : \A dst \in NamePool : \A new \in NamePool :
    /\ \A o \in Diagram_ChangeRelationshipSource(diagram, src, dst, new) :
         ChangedEndpoint(o, src, dst, new, dst, new)
    /\ \A o \in Diagram_ChangeRelationshipDestination(diagram, src, dst, new) :
         ChangedEndpoint(o, src, dst, src, new, new)

\* the destination of a relationship has just been changed in a diagram
\* where another change of a destination would collide with a relationship,
\* one names a relationship that does not exist and one names no class
ChangeEndpointExactWitness ==
  /\ last.op = "relationship change destination" /\ last.ok
  /\ \E src \in NamePool : \E dst \in NamePool : \E new \in NamePool :
       /\ HasPair(diagram, src, dst) /\ HasPair(diagram, src, new) /\ dst # new
       /\ \A o \in Diagram_ChangeRelationshipDestination(diagram, src, dst, new) :
            ~o.ok
  /\ \E src \in NamePool : \E dst \in NamePool : \E new \in NamePool :
       /\ ~HasPair(diagram, src, dst) /\ new \in ClassNames(diagram)
       /\ \A o \in Diagram_ChangeRelationshipSource(diagram, src, dst, new) : ~o.ok
  /\ \E src \in NamePool : \E dst \in NamePool : \E new \in NamePool :
       /\ HasPair(diagram, src, dst) /\ new \notin ClassNames(diagram)
       /\ \A o \in Diagram_ChangeRelationshipSource(diagram, src, dst, new) : ~o.ok

\* C23: after any sequence of the Diagram mutations, successful or failed,
\* the classes of the diagram are in ascending order of their names.
ClassesSorted ==
  \A k \in 1..(Len(diagram.classes) - 1) :
    TextCmp(diagram.classes[k].name, diagram.classes[k + 1].name) <= 0

\* C24: after any sequence of the Diagram mutations, a RenameClass that
\* changes endpoints included, the relationships of the diagram are in
\* ascending order of (source, destination).
RelationshipsSorted ==
  \A k \in 1..(Len(diagram.relationships) - 1) :
    RelationshipCmp(diagram.relationships[k], diagram.relationships[k + 1]) <= 0

----------------------------------------------------------------------------
(* Properties of Load and of undo/redo across it.                           *)

\* C3: a Load that fails leaves the in-memory diagram exactly as it was
\* before the call.
FailedLoadLeavesDiagram ==
  [][(last'.op = "load" /\ ~last'.ok) => diagram' = diagram]_vars

RECURSIVE UndoTimes(_, _, _, _)
\* "undo" typed n times
UndoTimes(d, tl, idx, n) ==
  IF n = 0 THEN [diagram |-> d, index |-> idx]
  ELSE LET r == UndoCommand_Execute(d, tl, idx)
       IN  UndoTimes(r.diagram, tl, r.index, n - 1)

RECURSIVE RedoTimes(_, _, _, _, _)
\* "redo" typed n times: every diagram it can end with
RedoTimes(d, tl, idx, fs, n) ==
  IF n = 0 THEN { d }
  ELSE UNION { RedoTimes(r.diagram, tl, r.index, fs, n - 1) :
               r \in RedoCommand_Execute(d, tl, idx, fs) }

\* C2: right after the trackable command cn is committed, with c1..cn the
\* commands of the Timeline, undo n times and then redo n times ends with
\* the diagram that existed right after cn.
UndoRedoSymmetry ==
  (last.ok /\ last.op \notin UntrackableOps \cup {"none"}) =>
    LET n == Len(timeline)
        undone == UndoTimes(diagram, timeline, index, n)
    IN  \A d \in RedoTimes(undone.diagram, timeline, undone.index, files, n) :
          d = diagram

\* some relationship of the JSON diagram names a class that is not among its
\* classes, or two of its classes share a name, or two of its relationships
\* share their (source, destination) pair
InvalidDocument(doc) ==
  \/ \E k \in 1..Len(doc.relationships) :
       \/ \A c \in 1..Len(doc.classes) :
            doc.classes[c].name # doc.relationships[k].source
       \/ \A c \in 1..Len(doc.classes) :
            doc.classes[c].name # doc.relationships[k].destination
  \/ \E c \in 1..Len(doc.classes) : \E e \in 1..Len(doc.classes) :
       c # e /\ doc.classes[c].name = doc.classes[e].name
  \/ \E k \in 1..Len(doc.relationships) : \E j \in 1..Len(doc.relationships) :
       /\ k # j
       /\ doc.relationships[k].source = doc.relationships[j].source
       /\ doc.relationships[k].destination = doc.relationships[j].destination

\* C15: Load fails for every JSON diagram in which a relationship's source
\* or destination is not the name of one of its classes, or two classes
\* share a name, or two relationships share their (source, destination) pair.
LoadRejectsInvalid ==
  \A f \in DOMAIN files :
    InvalidDocument(files[f]) =>
      \A o \in Diagram_Load(diagram, files, f) : ~o.ok

\* a Load has just failed on a file whose classes are unique and not in
\* order and whose relationships have distinct pairs, one of them naming a
\* class that the file does not hold
LoadRejectsInvalidWitness ==
  /\ last.op = "load" /\ ~last.ok
  /\ files["file"].classes = <<JsonClass(<<"b">>), JsonClass(<<"a">>)>>
  /\ Len(files["file"].relationships) = 2
  /\ files["file"].relationships[1].source = <<"b">>
  /\ files["file"].relationships[1].destination = <<"a">>
  /\ files["file"].relationships[2].source = <<"a">>
  /\ files["file"].relationships[2].destination = <<"c">>

\* field names unique, no two methods with the same name and parameter
\* types, no two parameters of a method with the same name
ClassInvariants(c) ==
  /\ \A k \in 1..Len(c.fields) : \A j \in 1..Len(c.fields) :
       c.fields[k].name = c.fields[j].name => k = j
  /\ \A k \in 1..Len(c.methods) : \A j \in 1..Len(c.methods) :
       (/\ c.methods[k].name = c.methods[j].name
        /\ ParameterTypes(c.methods[k].parameters)
             = ParameterTypes(c.methods[j].parameters)) => k = j
  /\ \A k \in 1..Len(c.methods) :
       \A i \in 1..Len(c.methods[k].parameters) :
         \A j \in 1..Len(c.methods[k].parameters) :
           c.methods[k].parameters[i].name = c.methods[k].parameters[j].name => i = j

\* C16: decoding a diagram from JSON succeeds only if the decoded diagram
\* satisfies every invariant of the model, within each class too: field
\* names unique, method signatures unique, parameter names unique.
DecodedSatisfiesInvariants ==
  \A f \in DOMAIN files : \A o \in Diagram_Load(diagram, files, f) :
    o.ok => /\ ~InvalidDocument(files[f])
            /\ \A k \in 1..Len(o.val.classes) : ClassInvariants(o.val.classes[k])

\* no two methods of the class c have the same name and the same types of
\* parameters in the same order
SignaturesUnique(c) ==
  \A k \in 1..Len(c.methods) : \A j \in 1..Len(c.methods) :
    (/\ c.methods[k].name = c.methods[j].name
     /\ ParameterTypes(c.methods[k].parameters)
          = ParameterTypes(c.methods[j].parameters)) => k = j

\* C18: whatever methods were added, removed or renamed, whatever
\* parameters were set, added, removed, cleared, retyped or renamed and
\* whatever return types were changed, with or without success, no two
\* methods of a class have the same name together with the same ordered list
\* of parameter types.
MethodSignaturesUnique ==
  \A k \in 1..Len(diagram.classes) : SignaturesUnique(diagram.classes[k])

\* adding a parameter has just failed on a class with two methods of one
\* name, the one with a parameter more than the other, where adding a
\* parameter of that type to the shorter one collides with the longer one
MethodSignaturesUniqueWitness ==
  /\ last.op = "parameter add" /\ ~last.ok
  /\ \E k \in 1..Len(diagram.classes) :
       \E i, j \in 1..Len(diagram.classes[k].methods) :
         LET c == diagram.classes[k]
             short == c.methods[i]
             long == c.methods[j]
         IN  /\ short.name = long.name
             /\ short.parameters = <<>>
             /\ Len(long.parameters) = 1
             /\ \A o \in Class_AddParameter(c, MethodSignature(short.name, <<>>),
                                             <<"q">>, long.parameters[1].type) :
                  ~o.ok /\ o.err = "conflict" /\ o.val = c

\* the names of the parameters ps are pairwise different
NamesUnique(ps) ==
  \A k \in 1..Len(ps) : \A j \in 1..Len(ps) : ps[k].name = ps[j].name => k = j

\* C19: however a method was made (Method::From, Method::FromString,
\* decoding from JSON) and whatever parameters were added, removed, renamed
\* or set, with or without success, no two parameters of a method share a
\* name.
ParameterNamesUnique ==
  /\ \A k \in 1..Len(diagram.classes) :
       \A j \in 1..Len(diagram.classes[k].methods) :
         NamesUnique(diagram.classes[k].methods[j].parameters)
  /\ \A t \in MethodDefinitionPool :
       Method_FromString(t).ok => NamesUnique(Method_FromString(t).val.parameters)
  /\ \A f \in DOMAIN files : \A o \in Diagram_Load(diagram, files, f) :
       \A k \in 1..Len(o.val.classes) : \A j \in 1..Len(o.val.classes[k].methods) :
         NamesUnique(o.val.classes[k].methods[j].parameters)

\* renaming a parameter has just failed on a method with the two parameters
\* p and q, where renaming the one to the name of the other is refused
ParameterNamesUniqueWitness ==
  /\ last.op = "parameter rename" /\ ~last.ok
  /\ \E k \in 1..Len(diagram.classes) : \E j \in 1..Len(diagram.classes[k].methods) :
       LET m == diagram.classes[k].methods[j] IN
       /\ ParameterNames(m.parameters) = << <<"p">>, <<"q">> >>
       /\ Method_RenameParameter(m, <<"p">>, <<"q">>) = Fail("conflict", m)

\* the diagrams that Load, called on the diagram d, makes of the file that
\* Save writes for the current diagram
SavedThenLoaded(d) ==
  LET saved == Diagram_Save(diagram, files, "out")
  IN  IF saved.ok THEN Diagram_Load(d, saved.val, "out") ELSE { saved }

\* C17: Save of the diagram to a file followed by Load of that file, into an
\* empty diagram or over the diagram itself, succeeds and yields the diagram
\* that was saved.
SaveLoadRoundTrip ==
  \A d \in {EmptyDiagram, diagram} : SavedThenLoaded(d) = { Ok(diagram) }

\* the commands a user may type next in a directory of files of every kind
CommitPool ==
  { Cmd("load", <<f>>) : f \in DOMAIN files \cup {"missing"} }
    \cup { Cmd("class add", <<n>>) : n \in NamePool }

\* C5: Commit stores a copy of the diagram as it was before Execute ran, and
\* Undo after Commit yields exactly that diagram, whether Execute succeeded
\* or failed.
CommitThenUndoRestores ==
  \A cmd \in CommitPool : \A c \in Commit(cmd, diagram, files) :
    /\ c.command.prior_state = <<diagram>>
    /\ Command_Undo(c.command, c.result.val) = Ok(diagram)

\* an undo has just restored a diagram with classes, on which one Commit
\* succeeds and changes the diagram and another fails and changes it too
CommitThenUndoWitness ==
  /\ last.op = "undo" /\ last.ok
  /\ diagram.classes # <<>>
  /\ \E cmd \in CommitPool : \E c \in Commit(cmd, diagram, files) :
       c.result.ok /\ c.result.val # diagram
  /\ \E cmd \in CommitPool : \E c \in Commit(cmd, diagram, files) :
       ~c.result.ok /\ c.result.val # diagram

----------------------------------------------------------------------------
(* Properties of the Timeline.                                              *)

\* C11: when the loop adds a trackable command, the Timeline becomes the
\* commands before the cursor followed by the new command, with the cursor
\* behind it: everything at or after the old cursor is gone, so Redo fails
\* and Undo and Redo can return only the kept commands and the new one.
AddDiscardsRedoBranch ==
  [][(last'.ok /\ last'.op \notin UntrackableOps)
       => /\ index' = index + 1
          /\ Len(timeline') = index'
          /\ SubSeq(timeline', 1, index) = SubSeq(timeline, 1, index)
          /\ timeline'[index'].prior_state = <<diagram>>
          /\ timeline'[index'].cmd.op = last'.op
          /\ ~Timeline_Redo(timeline', index').ok]_vars

\* an undo has just left commands beyond the cursor, and a command that the
\* loop will add can be committed
AddDiscardsRedoBranchWitness ==
  /\ last.op = "undo" /\ last.ok
  /\ 0 < index /\ index + 1 < Len(timeline)
  /\ \E n \in NamePool : \E c \in Commit(Cmd("class add", <<n>>), diagram, files) :
       c.result.ok

\* C12: Timeline.Undo fails, changing nothing, exactly when the cursor is at
\* the start, and otherwise moves the cursor back and returns the command
\* now at it; Timeline.Redo fails, changing nothing, exactly when the cursor
\* is at the end, and otherwise returns the command at the cursor and
\* advances; a Redo right after a successful Undo returns the same command.
UndoRedoCursor ==
  LET u == Timeline_Undo(timeline, index)
      r == Timeline_Redo(timeline, index)
  IN  /\ u.ok <=> index # 0
      /\ ~u.ok => u.index = index /\ u.command = <<>>
      /\ u.ok => u.index = index - 1 /\ u.command = <<timeline[index]>>
      /\ r.ok <=> index # Len(timeline)
      /\ ~r.ok => r.index = index /\ r.command = <<>>
      /\ r.ok => r.index = index + 1 /\ r.command = <<timeline[index + 1]>>
      /\ u.ok => /\ Timeline_Redo(timeline, u.index).ok
                 /\ Timeline_Redo(timeline, u.index).command = u.command
                 /\ Timeline_Redo(timeline, u.index).index = index

\* a redo has just succeeded and left the cursor inside the history, where
\* both Undo and Redo succeed
UndoRedoCursorWitness ==
  /\ last.op = "redo" /\ last.ok
  /\ 0 < index /\ index < Len(timeline)
  /\ timeline[index] # timeline[index + 1]

\* C13: the Timeline holds only trackable commands whose Commit succeeded,
\* and Timeline.Add of an untrackable command changes neither the history
\* nor the cursor.
TimelineHoldsCommitted ==
  /\ \A k \in 1..Len(timeline) :
       /\ Trackable(timeline[k].cmd)
       /\ timeline[k].prior_state # <<>>
       /\ \E o \in Execute(timeline[k].cmd, timeline[k].prior_state[1], files) : o.ok
  /\ \A op \in UntrackableOps :
       Timeline_Add(timeline, index, Command(Cmd(op, <<>>), <<diagram>>))
         = [timeline |-> timeline, index |-> index]

\* a trackable command has just failed with a full history behind the cursor
TimelineHoldsCommittedWitness ==
  /\ ~last.ok /\ last.op \notin UntrackableOps
  /\ index = MaxHistory /\ Len(timeline) = MaxHistory

\* C14: the load command is untrackable: committing it never adds it to the
\* Timeline, and Undo on it succeeds and leaves the diagram unchanged.
LoadIsUntrackable ==
  /\ \A k \in 1..Len(timeline) : timeline[k].cmd.op # "load"
  /\ \A f \in DOMAIN files : \A c \in Commit(Cmd("load", <<f>>), diagram, files) :
       Command_Undo(c.command, c.result.val) = Ok(c.result.val)

\* C22: Command.Undo on an untrackable command, committed or not, succeeds
\* and leaves the diagram unchanged; on a trackable command that holds a
\* snapshot it succeeds and the diagram is the snapshot; on a trackable
\* command that was never committed it fails and leaves the diagram
\* unchanged.
CommandUndoCases ==
  /\ \A op \in UntrackableOps : \A prior \in {<<>>, <<EmptyDiagram>>} :
       Command_Undo(Command(Cmd(op, <<>>), prior), diagram) = Ok(diagram)
  /\ \A k \in 1..Len(timeline) :
       /\ Trackable(timeline[k].cmd) /\ timeline[k].prior_state # <<>>
       /\ Command_Undo(timeline[k], diagram) = Ok(timeline[k].prior_state[1])
       /\ LET uncommitted == Command(timeline[k].cmd, <<>>)
          IN  /\ ~Command_Undo(uncommitted, diagram).ok
              /\ Command_Undo(uncommitted, diagram).val = diagram

\* an undo has just put back the snapshot of a command, which differs from
\* the diagram the command had made, and the Timeline holds a command with
\* another snapshot
CommandUndoCasesWitness ==
  /\ last.op = "undo" /\ last.ok
  /\ index + 1 < Len(timeline)
  /\ diagram = timeline[index + 1].prior_state[1]
  /\ diagram # EmptyDiagram
  /\ timeline[index + 2].prior_state[1] # diagram

----------------------------------------------------------------------------
(* Properties of the fields, methods and parameters.                        *)

\* the mutations of the model a user may ask for next
MutationCommands ==
  { Cmd("class add", <<n>>) : n \in NamePool }
    \cup { Cmd("class remove", <<n>>) : n \in NamePool }
    \cup { Cmd("class rename", <<n, m>>) : n \in NamePool, m \in NamePool }
    \cup { Cmd("relationship add", <<n, m, t>>) :
             n \in NamePool, m \in NamePool, t \in RelTypePool }
    \cup { Cmd("relationship remove", <<n, m>>) : n \in NamePool, m \in NamePool }
    \cup { Cmd("relationship change source", <<n, m, x>>) :
             n \in NamePool, m \in NamePool, x \in NamePool }
    \cup { Cmd("relationship change destination", <<n, m, x>>) :
             n \in NamePool, m \in NamePool, x \in NamePool }
    \cup { Cmd("field rename", <<c, f, n>>) :
             c \in MemberClassPool, f \in FieldNamePool, n \in FieldNamePool }
    \cup { Cmd("method rename", <<c, sig, n>>) :
             c \in MemberClassPool, sig \in SignaturePool, n \in MethodNamePool }
    \cup { Cmd("parameter add", <<c, sig, n, t>>) :
             c \in MemberClassPool, sig \in SignaturePool,
             n \in ParameterNamePool, t \in TypePool }
    \cup { Cmd("parameter remove", <<c, sig, n>>) :
             c \in MemberClassPool, sig \in SignaturePool, n \in ParameterNamePool }
    \cup { Cmd("parameter retype", <<c, sig, n, t>>) :
             c \in MemberClassPool, sig \in SignaturePool,
             n \in ParameterNamePool, t \in TypePool }
    \cup { Cmd("parameters clear", <<c, sig>>) :
             c \in MemberClassPool, sig \in SignaturePool }
    \cup { Cmd("parameters set", <<c, sig, ps>>) :
             c \in MemberClassPool, sig \in SignaturePool, ps \in ParameterListPool }

\* C4: a mutation of the model that returns an error leaves the whole
\* diagram exactly as it was before the call.
FailedMutationLeavesDiagram ==
  \A cmd \in MutationCommands : \A o \in Execute(cmd, diagram, files) :
    ~o.ok => o.val = diagram

\* a mutation has just failed on a diagram on which the multi-step mutations
\* fail at their last step: removing, adding or retyping a parameter,
\* renaming a method and setting the parameters would each collide with
\* another method, and renaming a class or moving a relationship's end would
\* collide or name no class
FailedMutationWitness ==
  /\ last.op \in MemberOps /\ ~last.ok
  /\ \A op \in {"parameter add", "parameter remove", "parameter retype",
                 "method rename", "parameters set", "parameters clear",
                 "field rename", "class rename", "relationship change source",
                 "relationship change destination"} :
       \E cmd \in MutationCommands : \E o \in Execute(cmd, diagram, files) :
         cmd.op = op /\ o.err = "conflict"

FullIdentifier(t) == ValidIdentifier(t, 0).ok /\ ValidIdentifier(t, 0).val = Len(t)

FullType(t) == ValidType(t, 0).ok /\ ValidType(t, 0).val = Len(t)

FullParameter(p) == FullIdentifier(p.name) /\ FullType(p.type)

FullMethod(m) ==
  /\ FullIdentifier(m.name)
  /\ FullType(m.return_type)
  /\ \A k \in 1..Len(m.parameters) : FullParameter(m.parameters[k])

FullClass(c) ==
  /\ FullIdentifier(c.name)
  /\ \A k \in 1..Len(c.fields) : FullParameter(c.fields[k])
  /\ \A k \in 1..Len(c.methods) : FullMethod(c.methods[k])

\* C8: every stored class, field, method and parameter name is an identifier
\* in its entirety, and every stored field type, parameter type and return
\* type is a complete type expression.
StoredTextWellFormed ==
  \A k \in 1..Len(diagram.classes) : FullClass(diagram.classes[k])

SignatureOf(m) == MethodSignature(m.name, ParameterTypes(m.parameters))

\* C25: after any sequence of the Class mutations, the methods of a class
\* are in ascending order of their signatures under the MethodSignature
\* ordering: the name, then the parameter types position by position, then
\* the number of parameters.
MethodsSortedBySignature ==
  \A k \in 1..Len(diagram.classes) :
    \A j \in 1..(Len(diagram.classes[k].methods) - 1) :
      MethodSignatureCmp(SignatureOf(diagram.classes[k].methods[j]),
                         SignatureOf(diagram.classes[k].methods[j + 1])) <= 0

FieldsIncreasing(c) ==
  \A k \in 1..(Len(c.fields) - 1) : TextCmp(c.fields[k].name, c.fields[k + 1].name) < 0

\* C26: in every class of every reachable diagram, built by the field
\* mutations or obtained by Load, the fields are in strictly increasing
\* order of their names.
FieldsStrictlySorted ==
  \A k \in 1..Len(diagram.classes) : FieldsIncreasing(diagram.classes[k])

\* the methods AddMethod is asked to add
AddedNamePool == { <<"f">>, <<"g">>, <<"1">> }
AddedReturnTypePool == { <<"i">>, <<"j">>, <<"1">> }
AddedParametersPool ==
  { <<>>,
    << [name |-> <<"p">>, type |-> <<"i">>] >>,
    << [name |-> <<"q">>, type |-> <<"i">>] >>,
    << [name |-> <<"p">>, type |-> <<"j">>] >>,
    << [name |-> <<"p">>, type |-> <<"1">>] >>,
    << [name |-> <<"1">>, type |-> <<"i">>] >>,
    << [name |-> <<"p">>, type |-> <<"i">>], [name |-> <<"q">>, type |-> <<"i">>] >>,
    << [name |-> <<"p">>, type |-> <<"i">>], [name |-> <<"p">>, type |-> <<"j">>] >> }

\* the name, the return type and the parameters are valid, as Check accepts
\* them: an identifier, a type, and parameters of pairwise distinct
\* identifier names and of types
ValidMethodArguments(name, return_type, parameters) ==
  /\ CheckIdentifier(name)
  /\ CheckType(return_type)
  /\ \A k \in 1..Len(parameters) :
       /\ CheckIdentifier(parameters[k].name)
       /\ CheckType(parameters[k].type)
       /\ \A j \in 1..Len(parameters) : parameters[j].name = parameters[k].name => j = k

HasNameAndTypes(c, name, types) ==
  \E k \in 1..Len(c.methods) :
    c.methods[k].name = name /\ ParameterTypes(c.methods[k].parameters) = types

MalformedName == <<"1">>

\* C28: every lookup or mutation entry point that takes a raw name (class,
\* field, method parameter, relationship endpoint) validates the name before
\* it searches: a malformed name yields a validation error, never a
\* not-found error.
NamesValidatedFirst ==
  /\ GetClass(diagram, MalformedName).err = "validation"
  /\ \A n \in NamePool : GetRelationship(diagram, MalformedName, n).err = "validation"
  /\ \A k \in 1..Len(diagram.classes) :
       LET c == diagram.classes[k] IN
       /\ GetField(c, MalformedName).err = "validation"
       /\ \A j \in 1..Len(c.methods) :
            /\ Method_GetParameter(c.methods[j], MalformedName).err = "validation"
            /\ \A o \in Class_DeleteParameter(c, SignatureOf(c.methods[j]), MalformedName) :
                 o.err = "validation"

\* the lookups of NamesValidatedFirst other than those of a parameter
OtherNamesValidatedFirst ==
  /\ GetClass(diagram, MalformedName).err = "validation"
  /\ \A n \in NamePool : GetRelationship(diagram, MalformedName, n).err = "validation"
  /\ \A k \in 1..Len(diagram.classes) :
       GetField(diagram.classes[k], MalformedName).err = "validation"

HasSpace(t) == \E k \in 1..Len(t) : t[k] = " "

\* a comma ends the text or stands right before a closing bracket
TrailingComma(t) ==
  \E k \in 1..Len(t) :
    /\ t[k] = ","
    /\ k = Len(t) \/ t[k + 1] \in {")", "]", ">"}

\* the parse of the text t returned res: it succeeded only on a text that
\* is, character by character, the written form of what it returned
TotalParse(t, res, written) ==
  /\ res.ok => written = t
  /\ HasSpace(t) \/ TrailingComma(t) => ~res.ok

\* C29: Method::FromString, MethodSignature::FromString,
\* Parameter::FromString and Parameter::MultipleFromString succeed only when
\* the parse consumes the whole text: a text with whitespace anywhere, with
\* a trailing comma, or with a character left after a complete parse fails.
\* So every parsed argument of a committed command is, written out, one of
\* the texts typed.
ParsesAreTotal ==
  /\ \A k \in 1..Len(timeline) :
       /\ timeline[k].cmd.op = "method add" =>
            Method_Format(timeline[k].cmd.args[2]) \in MethodTextPool
       /\ timeline[k].cmd.op \in {"method remove", "parameters set"} =>
            MethodSignature_Format(timeline[k].cmd.args[2]) \in SignatureTextPool
  /\ \A t \in MethodTextPool :
       \A res \in { Method_FromString(t) } :
         TotalParse(t, res, IF res.ok THEN Method_Format(res.val) ELSE <<>>)
  /\ \A t \in SignatureTextPool :
       \A res \in { MethodSignature_FromString(t) } :
         TotalParse(t, res, IF res.ok THEN MethodSignature_Format(res.val) ELSE <<>>)
  /\ \A t \in ParameterTextPool :
       \A res \in { Parameter_FromString(t) } :
         TotalParse(t, res, IF res.ok THEN Parameter_Format(res.val) ELSE <<>>)
  /\ \A t \in ParameterListTextPool :
       \A res \in { Parameter_MultipleFromString(t) } :
         TotalParse(t, res,
                    IF res.ok
                    THEN Joined([k \in 1..Len(res.val) |-> Parameter_Format(res.val[k])],
                                <<",">>)
                    ELSE <<>>)

\* a method definition has just been refused by the parser, the diagram
\* holding the methods of the file, and the texts typed hold a definition
\* that parses and that no longer parses with a space after it
ParsesAreTotalWitness ==
  /\ last.op = "method add" /\ ~last.ok
  /\ diagram.classes # <<>>
  /\ \E t \in MethodTextPool :
       /\ Method_FromString(t).ok
       /\ Append(t, " ") \in MethodTextPool
       /\ ~Method_FromString(Append(t, " ")).ok
       /\ Len(Method_FromString(t).val.parameters) = 2

\* type expressions: a name, a pointer, a bracketed list of each kind, a
\* list in a list, and a list followed by a pointer
SignatureTypePool ==
  { <<"i">>, <<"j">>, <<"i", "*">>,
    <<"x", "<", "i", ",", "j", ">">>, <<"x", "[", "]">>,
    <<"x", "(", "i", ")", "*">>,
    <<"x", "<", "y", "[", "i", "]", ",", "j", ">">> }

SignatureNamePool == { <<"f">>, <<"_", "g", "1">> }

\* a signature whose name is an identifier and whose types are type expressions
ValidlyConstructed(sig) ==
  /\ FullIdentifier(sig.name)
  /\ \A k \in 1..Len(sig.parameter_types) : FullType(sig.parameter_types[k])

ConstructedSignaturePool ==
  { MethodSignature(n, ts) :
      n \in SignatureNamePool,
      ts \in {<<>>} \cup { <<a>> : a \in SignatureTypePool }
                    \cup { <<a, b>> : a \in SignatureTypePool, b \in SignatureTypePool } }

RoundTrips(sig) == MethodSignature_FromString(MethodSignature_Format(sig)) = Ok(sig)

\* C30: for any validly constructed MethodSignature s,
\* MethodSignature::FromString of the formatted text of s succeeds and
\* returns a signature equal to s.
SignatureRoundTrip ==
  /\ \A sig \in ConstructedSignaturePool : ValidlyConstructed(sig) /\ RoundTrips(sig)
  /\ \A k \in 1..Len(diagram.classes) :
       \A j \in 1..Len(diagram.classes[k].methods) :
         \A sig \in { SignatureOf(diagram.classes[k].methods[j]) } :
           ValidlyConstructed(sig) => RoundTrips(sig)
  /\ \A k \in 1..Len(timeline) :
       timeline[k].cmd.op \in {"method remove", "parameters set"} =>
         RoundTrips(timeline[k].cmd.args[2])

\* a method has just been removed by a signature parsed from a text, and the
\* class holds a method of two parameters whose signature goes through the
\* round trip
SignatureRoundTripWitness ==
  /\ last.op = "method remove" /\ last.ok
  /\ Len(timeline[index].cmd.args[2].parameter_types) = 1
  /\ \E k \in 1..Len(diagram.classes) :
       \E j \in 1..Len(diagram.classes[k].methods) :
         /\ Len(diagram.classes[k].methods[j].parameters) = 2
         /\ RoundTrips(SignatureOf(diagram.classes[k].methods[j]))

\* C31: for any class and any valid field name it does not hold, a
\* successful AddField followed at once by DeleteField of that name leaves
\* the field sequence as it was, order included.
AddThenDeleteRestores ==
  \A k \in 1..Len(diagram.classes) :
    \A n \in FieldNamePool : \A t \in TypePool :
      \A added \in Class_AddField(diagram.classes[k], n, t) :
        added.ok =>
          \A deleted \in Class_DeleteField(added.val, n) :
            deleted.ok /\ deleted.val.fields = diagram.classes[k].fields

----------------------------------------------------------------------------
(* Properties of the grammar validator.                                     *)

\* the closer that matches the opener
Matching(o, c) == <<o, c>> \in { <<"[", "]">>, <<"(", ")">>, <<"<", ">">> }

\* C32: for valid type expressions t1..tn (n >= 0) and an identifier A,
\* ValidType parses A<t1,...,tn>, A[t1,...,tn] and A(t1,...,tn) with the
\* same end offset, the full length; an opener closed by a closer of another
\* kind, a missing closer, or a comma before the closer makes the parse fail.
BracketedListsParse ==
  (call.fn = "ValidType" /\ call.start = 0) =>
    \A o \in Openers : \A ts \in TypeListPool :
      /\ \A c \in Closers :
           call.text = Bracketed(o, c, ts) =>
             IF Matching(o, c) THEN call.result = Ok(Len(call.text))
             ELSE ~call.result.ok
      /\ call.text = Unclosed(o, ts) => ~call.result.ok
      /\ call.text = CommaBeforeCloser(o, ts) => ~call.result.ok

\* a(i,b<i>*) has just been parsed to its end by a call that found the stack
\* not empty
BracketedListsParseWitness ==
  /\ call.fn = "ValidType" /\ call.start = 0
  /\ call.text = Bracketed("(", ")", << <<"i">>, <<"b", "<", "i", ">", "*">> >>)
  /\ call.result = Ok(Len(call.text))
  /\ stack # <<>>

Letters == {"A", "Z", "a", "b", "c", "f", "g", "i", "j", "p", "q", "x", "y", "z"}
Digits == {"0", "1", "9"}

\* C33: ValidIdentifier(text, start) fails when start is at the end of the
\* text or the character at start is neither a letter nor an underscore;
\* otherwise it succeeds with the index just past the longest run of letters,
\* digits and underscores that begins at start.
ValidIdentifierExact ==
  call.fn = "ValidIdentifier" =>
    IF call.start >= Len(call.text)
       \/ At(call.text, call.start) \notin Letters \cup {"_"}
    THEN ~call.result.ok
    ELSE /\ call.result.ok
         /\ call.result.val \in (call.start + 1)..Len(call.text)
         /\ \A i \in call.start..(call.result.val - 1) :
              At(call.text, i) \in Letters \cup Digits \cup {"_"}
         /\ call.result.val < Len(call.text) =>
              At(call.text, call.result.val) \notin Letters \cup Digits \cup {"_"}

\* the identifier b9 has been read from the middle of a!b9, and the
\* identifier a from the start of "a b"
ValidIdentifierExactWitness ==
  /\ call.fn = "ValidIdentifier"
  /\ \/ call.text = <<"a", "!", "b", "9">> /\ call.start = 2 /\ call.result = Ok(4)
     \/ call.text = <<"a", " ", "b">> /\ call.start = 0 /\ call.result = Ok(1)

\* C37: the result of ValidType(text, start) depends on text and start only:
\* whatever calls came before, failed ones at any nesting depth included, the
\* call returns the outcome and the end index that it returns when nothing
\* was called before it.
ValidTypeIndependentOfEarlierCalls ==
  call.fn = "ValidType" => call.result = ValidType(call.text, call.start)

\* a<i> has been parsed by a call that found two closers on the stack, left
\* there by earlier failed calls
ValidTypeIndependentWitness ==
  /\ call.fn = "ValidType" /\ call.start = 0
  /\ call.text = <<"a", "<", "i", ">">>
  /\ call.result = Ok(4)
  /\ Len(stack) = 2

\* the list that goes wrong two levels deep has failed on a stack that held
\* a closer already
ValidTypeNestedFailureWitness ==
  /\ call.fn = "ValidType" /\ call.start = 0
  /\ call.text = <<"a", "<", "b", "(", "i", "]", ">">>
  /\ ~call.result.ok
  /\ Len(stack) = 2

\* C40: the bracket stack shared by the ValidType calls is empty whenever a
\* top-level ValidType call returns, on success and on every failure path.
StackEmptyOnReturn ==
  call.fn = "ValidType" => stack = <<>>

----------------------------------------------------------------------------
(* Properties of the Timeline cursor.                                       *)

\* C36: after any sequence of Timeline Add, Undo and Redo the cursor lies
\* between 0 and the length of the history, and right after the Add of a
\* trackable command it equals the length of the history.
CursorWithinHistory ==
  /\ index \in 0..Len(timeline)
  /\ (last.ok /\ last.op \notin UntrackableOps) => index = Len(timeline)
  /\ \A cmd \in CommitPool : \A c \in Commit(cmd, diagram, files) :
       LET t == Timeline_Add(timeline, index, c.command)
       IN  t.index = Len(t.timeline)

\* a second class has just been added: the cursor is at the end of a history
\* of two commands
CursorWithinHistoryWitness ==
  /\ last.op = "class add" /\ last.ok
  /\ Len(timeline) = 2 /\ index = 2
  /\ timeline[1].cmd.op = "class add" /\ timeline[2].cmd.op = "class add"
  /\ Len(diagram.classes) = 2

\* C35: in the command loop, after any interleaving of commands, undos and
\* redos, whenever a redo is possible (the cursor is below the length of the
\* history) the diagram equals the snapshot of the prior state held by the
\* command at the cursor.
RedoStartsFromSnapshot ==
  index < Len(timeline) => timeline[index + 1].prior_state = <<diagram>>

----------------------------------------------------------------------------
(* Properties of the comparisons of Method.                                 *)

\* C38: the ordering of Method is consistent with its equality: a == b
\* exactly when a <=> b is 'equal', for a method a of the diagram and any
\* method b that Method::From builds.
MethodOrderingMatchesEquality ==
  \A k \in 1..Len(diagram.classes) :
    \A i \in 1..Len(diagram.classes[k].methods) :
      \A name \in AddedNamePool : \A return_type \in AddedReturnTypePool :
        \A parameters \in AddedParametersPool :
          LET a == diagram.classes[k].methods[i]
              b == Method_From(name, return_type, parameters)
          IN  b.ok => (Method_Eq(a, b.val) <=> MethodCmp(a, b.val) = 0)

----------------------------------------------------------------------------
(* Properties of the mutations that would keep the key.                     *)

\* every outcome of the mutation is a conflict that leaves the entity as it was
ConflictLeaving(outcomes, entity) ==
  \A o \in outcomes : ~o.ok /\ o.err = "conflict" /\ o.val = entity

\* C39: a mutation whose resulting key equals the current key is rejected as
\* a conflict and changes nothing: RenameClass(a, a), RenameField(x, x),
\* RenameMethod to the current name, ChangeRelationshipSource and
\* ChangeRelationshipDestination to the current endpoint, ChangeParameterType
\* to the current type, and DeleteParameters on a method without parameters.
SameKeyIsConflict ==
  /\ \A k \in 1..Len(diagram.classes) :
       LET c == diagram.classes[k] IN
       /\ ConflictLeaving(Diagram_RenameClass(diagram, c.name, c.name), diagram)
       /\ \A f \in 1..Len(c.fields) :
            ConflictLeaving(Class_RenameField(c, c.fields[f].name, c.fields[f].name), c)
       /\ \A m \in 1..Len(c.methods) :
            LET sig == SignatureOf(c.methods[m]) IN
            /\ ConflictLeaving(Class_RenameMethod(c, sig, c.methods[m].name), c)
            /\ \A p \in 1..Len(c.methods[m].parameters) :
                 ConflictLeaving(
                   Class_ChangeParameterType(c, sig, c.methods[m].parameters[p].name,
                                             c.methods[m].parameters[p].type), c)
            /\ c.methods[m].parameters = <<>> =>
                 ConflictLeaving(Class_DeleteParameters(c, sig), c)
  /\ \A r \in 1..Len(diagram.relationships) :
       LET rel == diagram.relationships[r] IN
       /\ ConflictLeaving(
            Diagram_ChangeRelationshipSource(diagram, rel.source, rel.destination,
                                             rel.source), diagram)
       /\ ConflictLeaving(
            Diagram_ChangeRelationshipDestination(diagram, rel.source, rel.destination,
                                                  rel.destination), diagram)

\* the parameters of a method have just been cleared in a diagram that holds
\* a relationship and a class with a field, a method without parameters and
\* a method with one
SameKeyIsConflictWitness ==
  /\ last.op = "parameters clear" /\ last.ok
  /\ diagram.relationships # <<>>
  /\ \E k \in 1..Len(diagram.classes) :
       LET c == diagram.classes[k] IN
       /\ c.fields # <<>>
       /\ \E m \in 1..Len(c.methods) : c.methods[m].parameters = <<>>
       /\ \E m \in 1..Len(c.methods) : c.methods[m].parameters # <<>>

----------------------------------------------------------------------------
(* Properties of Command::From.                                             *)

\* the tokens agree with the template i in their number and at every word,
\* and the token of every hole parses as the kind of the hole
Agrees(i, tokens) ==
  /\ Len(tokens) = Len(SPLIT[i])
  /\ \A k \in 1..Len(tokens) :
       IF SPLIT[i][k] \in Holes THEN ParseParam(SPLIT[i][k], tokens[k]).ok
       ELSE tokens[k] = SPLIT[i][k]

\* the tokens typed so far are the words of the template i wherever a token
\* meets a word
StillViable(i, tokens) ==
  \A k \in 1..Len(tokens) :
    (k <= Len(SPLIT[i]) /\ SPLIT[i][k] \notin Holes) => tokens[k] = SPLIT[i][k]

\* what is stated of Command::From(tokens) and its Result
Resolved(tokens, result) ==
  LET agreeing == { i \in 1..NumCommands : Agrees(i, tokens) }
      viable == { i \in 1..NumCommands : StillViable(i, tokens) }
  IN  /\ result.ok <=> Cardinality(agreeing) = 1
      /\ result.ok =>
           /\ result.val.template \in agreeing
           /\ \A k \in HolesOf(result.val.template) :
                result.val.args[k] = ParseParam(SPLIT[result.val.template][k], tokens[k])
      /\ (~result.ok /\ viable = {}) => result.err = "invalid command"
      /\ (~result.ok /\ Cardinality(viable) > 1) =>
           result.err = "requires subcommand" /\ result.val = viable

RequiresSubcommandWitness ==
  /\ call.fn = "From"
  /\ call.text = <<"relationship", "change">>
  /\ call.result = Fail("requires subcommand", {31, 32, 33})

====
